---- MODULE Spec2Model ----
(***************************************************************************)
(* Model of the client-side session cache (SessionStore) of the console:   *)
(* the in-memory session list with its TTL, the per-id detail cache, the   *)
(* single-flight pending requests, the write-through to localStorage, and  *)
(* the remote calls (listChats, getChat, deleteChat) it awaits.            *)
(*                                                                         *)
(* JavaScript runs every handler to completion between two awaits, so one  *)
(* action is one such run: a call up to its first await, or the settlement *)
(* of a remote call together with the continuations (the rest of the async *)
(* function, its finally block, the callers chained on its promise) that   *)
(* the microtask queue runs before any other event is handled.             *)
(*                                                                         *)
(* The window.current* fields the store writes as a side channel are never *)
(* read by it and are left out.                                            *)
(*                                                                         *)
(* Two further components are modelled next to the store: the stream       *)
(* assembler of the API client (sendAgentMessage, parseStreamLine,         *)
(* extractDeltaText) and the send operation of the chat page               *)
(* (ChatPage.sendMessage with loadChats and loadHistory).  Each has its    *)
(* own variables and its own specification.                                *)
(***************************************************************************)
EXTENDS Integers, Sequences, FiniteSets, TLC

VARIABLES
    sessionList,          \* this.sessionList
    lsValue,              \* localStorage item under this.lsKey
    fetchPromise,         \* this.fetchPromise (NoPromise = null, else the call that owns it)
    lastFetchTime,        \* this.lastFetchTime
    sessionCache,         \* this.sessionCache : id -> {session, timestamp}
    sessionFetchPromises, \* this.sessionFetchPromises : id -> owning call
    now,                  \* Date.now()
    net,                  \* the remote call each call has outstanding (at: when listChats was sent)
    calls,                \* the calls of the store's async methods that are pending
    ret,                  \* what the calls settled by the last step settled to
    \* the stream assembler (sendAgentMessage)
    body,                 \* the characters of the response body, in tokens
    readPos,              \* how many of them reader.read() has delivered
    buffer,               \* let buffer
    invocations,          \* the arguments onTextChunk has been invoked with, in order
    reader,               \* where sendAgentMessage stands
    \* the chat page (ChatPage)
    history,              \* useState history: the visible history
    error,                \* useState error ("" is null)
    sending,              \* useState sending
    activeChat,           \* whether activeChat is not null
    sends,                \* the invocations of sendMessage: their locals and position
    polls,                \* the polling requests in flight: the server version when sent
    serverVersion         \* how far the history kept by the server has grown

storeVars == <<sessionList, lsValue, fetchPromise, lastFetchTime, sessionCache,
               sessionFetchPromises, now, net, calls, ret>>
streamVars == <<body, readPos, buffer, invocations, reader>>
pageVars == <<history, error, sending, activeChat, sends, polls, serverVersion>>

vars == <<sessionList, lsValue, fetchPromise, lastFetchTime, sessionCache,
          sessionFetchPromises, now, net, calls, ret,
          body, readPos, buffer, invocations, reader,
          history, error, sending, activeChat, sends, polls, serverVersion>>

---------------------------------------------------------------------------
(* Bounds of the model *)

NCallers == 2
MaxTicks == 2
MaxList == 1
MaxCreated == 2

(* Program constants *)

cacheTimeout == 5000
sessionCacheTimeout == 5000

DEFAULT_USER_ID == "default"
DEFAULT_CHANNEL == "console"
NEW_CHAT_NAME == "New Chat"

---------------------------------------------------------------------------
(* The universe the inputs are drawn from *)

Callers == 1..NCallers

\* The clock moves in steps of half a TTL period, so that differences of
\* 0, 2500 and 5000 ms (the boundary) all occur.
Tick == cacheTimeout \div 2
StartTime == 2 * cacheTimeout
Times == {StartTime + k * Tick : k \in 0..MaxTicks}

ServerIds == {"a", "b"}
SentinelIds == {"", "undefined", "null"}
NumericIds == {ToString(t) : t \in Times}

NoPromise == 0
NoReq == [kind |-> "none", id |-> "", at |-> 0]
IdleCall == [op |-> "none", arg |-> "", st |-> "idle", awaits |-> NoPromise, why |-> ""]
NoRet == [op |-> "none", arg |-> "", st |-> "none", res |-> <<>>, via |-> ""]
RejectedError == [error |-> "rejected"]

\* A session summary as the server lists it; chat b has an empty channel.
ServerSummary(id) ==
    [id |-> id, name |-> "srv-" \o id, sessionId |-> id, userId |-> "u1",
     channel |-> IF id = "b" THEN "" ELSE "web", messages |-> <<>>, meta |-> <<>>]

\* The payloads listChats may resolve to: no chat, one, two, and two with an
\* entry without a usable id among them.
ServerPayloads ==
    {<<>>,
     <<ServerSummary("a")>>,
     <<ServerSummary("a"), ServerSummary("b")>>,
     <<ServerSummary("undefined"), ServerSummary("b")>>}

\* The bodies getChat may resolve to: with or without a messages field.
RemoteSessions == {[has |-> FALSE, messages |-> <<>>], [has |-> TRUE, messages |-> <<"m1">>]}

---------------------------------------------------------------------------
(* Pure helpers *)

RECURSIVE Reverse(_)
Reverse(s) == IF s = <<>> THEN <<>> ELSE Append(Reverse(Tail(s)), Head(s))

IdsOf(list) == {list[i].id : i \in 1..Len(list)}

\* Array.prototype.find / findIndex on a session list: the first entry with that id.
HasSession(list, id) == \E i \in 1..Len(list) : list[i].id = id
FindIndex(list, id) ==
    CHOOSE i \in 1..Len(list) :
        /\ list[i].id = id
        /\ \A j \in 1..(i - 1) : list[j].id # id
FindSession(list, id) == list[FindIndex(list, id)]

\* JSON.stringify / JSON.parse of a list of sessions whose fields are strings
\* and arrays: the text holds exactly the list.
JSONstringify(list) == [present |-> TRUE, text |-> list]
JSONparse(item) == item.text
NoItem == [present |-> FALSE, text |-> <<>>]

\* localStorage.getItem(this.lsKey) || "[]"
StoredOrEmpty == IF lsValue.present THEN lsValue ELSE JSONstringify(<<>>)

\* Mutant: no id is taken for numeric.
IsNumericId_Never(id) == FALSE

\* /^\d+$/.test(id), over the ids of the model.
IsNumericId(id) == id \in NumericIds

\* Mutant: only the empty id is taken for a sentinel.
IsSentinelId_EmptyOnly(id) == id = ""

\* !sessionId || sessionId === "undefined" || sessionId === "null"
IsSentinelId(id) == id = "" \/ id = "undefined" \/ id = "null"

createEmptySession(sessionId) ==
    [id |-> sessionId, name |-> NEW_CHAT_NAME, sessionId |-> sessionId,
     userId |-> DEFAULT_USER_ID, channel |-> DEFAULT_CHANNEL,
     messages |-> <<>>, meta |-> <<>>]

\* getLocalSession: the entry of the list, or a synthesized empty session.
getLocalSession(sessionId) ==
    IF HasSession(sessionList, sessionId)
    THEN FindSession(sessionList, sessionId)
    ELSE createEmptySession(sessionId)

---------------------------------------------------------------------------
(* Initial state of the store: freshly constructed; localStorage is empty   *)
(* or holds a list persisted by an earlier page load.                       *)

InitialItems ==
    {NoItem, JSONstringify(<<ServerSummary("b"), ServerSummary("a")>>)}

StoreInit ==
    /\ sessionList = <<>>
    /\ lsValue \in InitialItems
    /\ fetchPromise = NoPromise
    /\ lastFetchTime = 0
    /\ sessionCache = <<>>
    /\ sessionFetchPromises = <<>>
    /\ now = StartTime
    /\ net = [c \in Callers |-> NoReq]
    /\ calls = [c \in Callers |-> IdleCall]
    /\ ret = [c \in Callers |-> NoRet]

---------------------------------------------------------------------------
(* Calls and their settlement.  A pending call records the promise it      *)
(* settles with (awaits) and, for a list fetch, which test let it start    *)
(* (why).  A settled call records the return statement it came from (via). *)

\* A new call takes the first free slot (the slots are interchangeable).
Free(c) == calls[c].st = "idle" /\ \A d \in 1..(c - 1) : calls[d].st # "idle"

Pending(op, arg, owner, why) ==
    [op |-> op, arg |-> arg, st |-> "pending", awaits |-> owner, why |-> why]
\* response is what listChats or getChat resolved to, for a fetched value.
Fulfilled(op, arg, value, via) ==
    [op |-> op, arg |-> arg, st |-> "fulfilled", res |-> value, via |-> via,
     response |-> <<>>]
Rejected(op, arg) ==
    [op |-> op, arg |-> arg, st |-> "rejected", res |-> RejectedError, via |-> "joined"]

\* The calls that settle with the promise owned by call c.
Awaiting(op, c) ==
    {d \in Callers : calls[d].st = "pending" /\ calls[d].op = op /\ calls[d].awaits = c}

\* A call that settles in the step it is made.
Returns(c, op, arg, value, via) ==
    /\ ret' = [d \in Callers |-> IF d = c THEN Fulfilled(op, arg, value, via) ELSE NoRet]
    /\ UNCHANGED calls

\* A call that is left pending on the promise owned by call owner.
Waits(c, op, arg, owner, why) ==
    /\ calls' = [calls EXCEPT ![c] = Pending(op, arg, owner, why)]
    /\ ret' = [d \in Callers |-> NoRet]

---------------------------------------------------------------------------
(* getSessionList *)

\* Mutant: a pending fetch is never joined.
ListFetchPending_Never == FALSE

\* if (this.fetchPromise)
ListFetchPending == fetchPromise # NoPromise

\* Mutants: the TTL test includes the boundary; the TTL is taken in seconds.
ListCacheValid_Inclusive == Len(sessionList) > 0 /\ now - lastFetchTime <= cacheTimeout
ListCacheValid_Seconds == Len(sessionList) > 0 /\ now - lastFetchTime < cacheTimeout \div 1000

\* this.sessionList.length > 0 && now - this.lastFetchTime < this.cacheTimeout
ListCacheValid == Len(sessionList) > 0 /\ now - lastFetchTime < cacheTimeout

GetSessionListJoin(c) ==
    /\ Free(c)
    /\ ListFetchPending
    /\ Waits(c, "getSessionList", "", fetchPromise, "")
    /\ UNCHANGED <<sessionList, lsValue, fetchPromise, lastFetchTime, sessionCache,
                   sessionFetchPromises, now, net>>
    /\ UNCHANGED <<streamVars, pageVars>>

GetSessionListCached(c) ==
    /\ Free(c)
    /\ ~ListFetchPending
    /\ ListCacheValid
    /\ Returns(c, "getSessionList", "", sessionList, "cached")
    /\ UNCHANGED <<sessionList, lsValue, fetchPromise, lastFetchTime, sessionCache,
                   sessionFetchPromises, now, net>>
    /\ UNCHANGED <<streamVars, pageVars>>

GetSessionListFetch(c) ==
    /\ Free(c)
    /\ ~ListFetchPending
    /\ ~ListCacheValid
    /\ fetchPromise' = c
    /\ net' = [net EXCEPT ![c] = [kind |-> "listChats", id |-> "", at |-> now]]
    /\ Waits(c, "getSessionList", "", c, IF Len(sessionList) > 0 THEN "expired" ELSE "empty")
    /\ UNCHANGED <<sessionList, lsValue, lastFetchTime, sessionCache,
                   sessionFetchPromises, now>>
    /\ UNCHANGED <<streamVars, pageVars>>

\* .filter((session) => session.id && session.id !== "undefined" && session.id !== "null")
FilterValid(payload) == SelectSeq(payload, LAMBDA s : ~IsSentinelId(s.id))

\* Mutant: the payload is kept in the server's order.
MappedList_NoReverse(payload) == FilterValid(payload)

\* sessions.map(mapSessionSummary).reverse()
MappedList(payload) == Reverse(FilterValid(payload))

\* Mutant: the fallback ignores the Persistent Store.
FallbackList_Empty == <<>>

\* The list the catch of fetchSessionListFromBackend falls back to.
FallbackList == JSONparse(StoredOrEmpty)

\* The settlement of the list fetch owned by call c with value list: the
\* finally of the getSessionList that started it, and every call chained on it.
SettleListFetch(c, list, via, payload) ==
    /\ fetchPromise' = NoPromise
    /\ net' = [net EXCEPT ![c] = NoReq]
    /\ calls' = [d \in Callers |->
                    IF d \in Awaiting("getSessionList", c) THEN IdleCall ELSE calls[d]]
    /\ ret' = [d \in Callers |->
                    IF d \in Awaiting("getSessionList", c)
                    THEN [Fulfilled("getSessionList", "", list, via)
                              EXCEPT !.response = payload]
                    ELSE NoRet]

\* listChats resolved: the try branch of fetchSessionListFromBackend.
ListChatsResolve(c, payload) ==
    /\ net[c].kind = "listChats"
    /\ sessionList' = MappedList(payload)
    /\ lsValue' = JSONstringify(sessionList')
    /\ lastFetchTime' = now
    /\ SettleListFetch(c, sessionList', "fetched", payload)
    /\ UNCHANGED <<sessionCache, sessionFetchPromises, now>>
    /\ UNCHANGED <<streamVars, pageVars>>

\* Mutant: the catch branch sets the TTL clock as the try branch does.
ListChatsReject_SetsClock(c) ==
    /\ net[c].kind = "listChats"
    /\ sessionList' = FallbackList
    /\ lastFetchTime' = now
    /\ SettleListFetch(c, sessionList', "fallback", <<>>)
    /\ UNCHANGED <<lsValue, sessionCache, sessionFetchPromises, now>>
    /\ UNCHANGED <<streamVars, pageVars>>

\* listChats rejected: the catch branch of fetchSessionListFromBackend.
ListChatsReject(c) ==
    /\ net[c].kind = "listChats"
    /\ sessionList' = FallbackList
    /\ SettleListFetch(c, sessionList', "fallback", <<>>)
    /\ UNCHANGED <<lsValue, lastFetchTime, sessionCache, sessionFetchPromises, now>>
    /\ UNCHANGED <<streamVars, pageVars>>

---------------------------------------------------------------------------
(* getSession *)

\* Mutant: an entry is still valid when exactly the timeout has passed.
SessionCacheValid_Inclusive(id) ==
    /\ id \in DOMAIN sessionCache
    /\ now - sessionCache[id].timestamp <= sessionCacheTimeout

\* cacheEntry && now - cacheEntry.timestamp < this.sessionCacheTimeout
SessionCacheValid(id) ==
    /\ id \in DOMAIN sessionCache
    /\ now - sessionCache[id].timestamp < sessionCacheTimeout

\* Mutant: an in-flight request is never joined.
SessionFetchPending_Never(id) == FALSE

\* if (inFlightRequest)
SessionFetchPending(id) == id \in DOMAIN sessionFetchPromises

\* Map.prototype.set
MapSet(map, key, value) == [k \in DOMAIN map \cup {key} |-> IF k = key THEN value ELSE map[k]]

\* Mutant: the entry is left in the map.
MapDelete_Keeps(map, key) == map

\* Map.prototype.delete
MapDelete(map, key) == [k \in DOMAIN map \ {key} |-> map[k]]

\* Sentinel id: a fresh temporary session.
GetSessionSentinel(c, id) ==
    /\ Free(c)
    /\ IsSentinelId(id)
    /\ Returns(c, "getSession", id, createEmptySession("temp-" \o ToString(now)), "sentinel")
    /\ UNCHANGED <<sessionList, lsValue, fetchPromise, lastFetchTime, sessionCache,
                   sessionFetchPromises, now, net>>
    /\ UNCHANGED <<streamVars, pageVars>>

\* Purely numeric id: resolved from the in-memory list only.
GetSessionNumeric(c, id) ==
    /\ Free(c)
    /\ ~IsSentinelId(id)
    /\ IsNumericId(id)
    /\ Returns(c, "getSession", id, getLocalSession(id), "numeric")
    /\ UNCHANGED <<sessionList, lsValue, fetchPromise, lastFetchTime, sessionCache,
                   sessionFetchPromises, now, net>>
    /\ UNCHANGED <<streamVars, pageVars>>

GetSessionCached(c, id) ==
    /\ Free(c)
    /\ ~IsSentinelId(id)
    /\ ~IsNumericId(id)
    /\ SessionCacheValid(id)
    /\ Returns(c, "getSession", id, sessionCache[id].session, "cached")
    /\ UNCHANGED <<sessionList, lsValue, fetchPromise, lastFetchTime, sessionCache,
                   sessionFetchPromises, now, net>>
    /\ UNCHANGED <<streamVars, pageVars>>

\* return inFlightRequest: the call's promise adopts the in-flight one.
GetSessionJoin(c, id) ==
    /\ Free(c)
    /\ ~IsSentinelId(id)
    /\ ~IsNumericId(id)
    /\ ~SessionCacheValid(id)
    /\ SessionFetchPending(id)
    /\ Waits(c, "getSession", id, sessionFetchPromises[id], "")
    /\ UNCHANGED <<sessionList, lsValue, fetchPromise, lastFetchTime, sessionCache,
                   sessionFetchPromises, now, net>>
    /\ UNCHANGED <<streamVars, pageVars>>

GetSessionFetch(c, id) ==
    /\ Free(c)
    /\ ~IsSentinelId(id)
    /\ ~IsNumericId(id)
    /\ ~SessionCacheValid(id)
    /\ ~SessionFetchPending(id)
    /\ sessionFetchPromises' = MapSet(sessionFetchPromises, id, c)
    /\ net' = [net EXCEPT ![c] = [kind |-> "getChat", id |-> id, at |-> 0]]
    /\ Waits(c, "getSession", id, c, "")
    /\ UNCHANGED <<sessionList, lsValue, fetchPromise, lastFetchTime, sessionCache, now>>
    /\ UNCHANGED <<streamVars, pageVars>>

GetSession(c, id) ==
    \/ GetSessionSentinel(c, id)
    \/ GetSessionNumeric(c, id)
    \/ GetSessionCached(c, id)
    \/ GetSessionJoin(c, id)
    \/ GetSessionFetch(c, id)

\* value || fallback on a string field
OrElse(value, fallback) == IF value = "" THEN fallback ELSE value

\* Mutant: the list entry is not looked at.
MergedSession_RemoteOnly(sessionId, remoteSession) ==
    [id |-> sessionId, name |-> sessionId, sessionId |-> sessionId,
     userId |-> DEFAULT_USER_ID, channel |-> DEFAULT_CHANNEL,
     messages |-> IF remoteSession.has THEN remoteSession.messages ELSE <<>>,
     meta |-> <<>>]

\* mergedSession of fetchSessionFromBackend
MergedSession(sessionId, remoteSession) ==
    IF HasSession(sessionList, sessionId)
    THEN LET localSession == FindSession(sessionList, sessionId) IN
         [id |-> sessionId,
          name |-> OrElse(localSession.name, sessionId),
          sessionId |-> OrElse(localSession.sessionId, sessionId),
          userId |-> OrElse(localSession.userId, DEFAULT_USER_ID),
          channel |-> OrElse(localSession.channel, DEFAULT_CHANNEL),
          messages |-> IF remoteSession.has THEN remoteSession.messages ELSE <<>>,
          meta |-> localSession.meta]
    ELSE [id |-> sessionId, name |-> sessionId, sessionId |-> sessionId,
          userId |-> DEFAULT_USER_ID, channel |-> DEFAULT_CHANNEL,
          messages |-> IF remoteSession.has THEN remoteSession.messages ELSE <<>>,
          meta |-> <<>>]

\* The catch of getSession: the list entry, or a synthesized empty session.
SessionFallback(sessionId) ==
    IF HasSession(sessionList, sessionId)
    THEN FindSession(sessionList, sessionId)
    ELSE createEmptySession(sessionId)

\* How a call that returned the in-flight promise settles when that promise
\* rejects: the return is not awaited inside the try, so the catch of
\* getSession does not run and the call rejects with the same error.
JoinedRejection(sessionId) == Rejected("getSession", sessionId)

\* getChat resolved: the rest of fetchSessionFromBackend, the finally of the
\* getSession that started it, and the calls that joined it.
GetChatResolve(c, remoteSession) ==
    /\ net[c].kind = "getChat"
    /\ LET id == net[c].id
           mergedSession == MergedSession(id, remoteSession) IN
        /\ sessionCache' = MapSet(sessionCache, id, [session |-> mergedSession, timestamp |-> now])
        /\ sessionFetchPromises' = MapDelete(sessionFetchPromises, id)
        /\ ret' = [d \in Callers |->
                        IF d \in Awaiting("getSession", c)
                        THEN [Fulfilled("getSession", id, mergedSession, "fetched")
                                  EXCEPT !.response = remoteSession]
                        ELSE NoRet]
    /\ calls' = [d \in Callers |->
                    IF d \in Awaiting("getSession", c) THEN IdleCall ELSE calls[d]]
    /\ net' = [net EXCEPT ![c] = NoReq]
    /\ UNCHANGED <<sessionList, lsValue, fetchPromise, lastFetchTime, now>>
    /\ UNCHANGED <<streamVars, pageVars>>

\* Mutant: the fallback session is cached as a fetched one is.
GetChatReject_CachesFallback(c) ==
    /\ net[c].kind = "getChat"
    /\ LET id == net[c].id IN
        /\ sessionFetchPromises' = MapDelete(sessionFetchPromises, id)
        /\ sessionCache' = MapSet(sessionCache, id,
                                  [session |-> SessionFallback(id), timestamp |-> now])
        /\ ret' = [d \in Callers |->
                        IF d = c THEN Fulfilled("getSession", id, SessionFallback(id), "fallback")
                        ELSE IF d \in Awaiting("getSession", c)
                             THEN JoinedRejection(id) ELSE NoRet]
    /\ calls' = [d \in Callers |->
                    IF d \in Awaiting("getSession", c) THEN IdleCall ELSE calls[d]]
    /\ net' = [net EXCEPT ![c] = NoReq]
    /\ UNCHANGED <<sessionList, lsValue, fetchPromise, lastFetchTime, now>>
    /\ UNCHANGED <<streamVars, pageVars>>

\* getChat rejected: fetchSessionFromBackend rejects; the getSession that
\* started it runs its finally and its catch, the calls that joined it settle
\* as the in-flight promise does.
GetChatReject(c) ==
    /\ net[c].kind = "getChat"
    /\ LET id == net[c].id IN
        /\ sessionFetchPromises' = MapDelete(sessionFetchPromises, id)
        /\ ret' = [d \in Callers |->
                        IF d = c THEN Fulfilled("getSession", id, SessionFallback(id), "fallback")
                        ELSE IF d \in Awaiting("getSession", c)
                             THEN JoinedRejection(id) ELSE NoRet]
    /\ calls' = [d \in Callers |->
                    IF d \in Awaiting("getSession", c) THEN IdleCall ELSE calls[d]]
    /\ net' = [net EXCEPT ![c] = NoReq]
    /\ UNCHANGED <<sessionList, lsValue, fetchPromise, lastFetchTime, sessionCache, now>>
    /\ UNCHANGED <<streamVars, pageVars>>

---------------------------------------------------------------------------
(* updateSession, createSession, removeSession *)

\* The ids a caller passes: those of the listed sessions and the server's.
KnownIds == ServerIds \cup IdsOf(sessionList)

\* { ...this.sessionList[index], ...patch } for a patch {id, name}
ApplyPatch(list, patch) ==
    LET index == FindIndex(list, patch.id)
    IN [list EXCEPT ![index] = [list[index] EXCEPT !.id = patch.id, !.name = patch.name]]

Patches == [id : KnownIds, name : {"renamed"}]

\* Mutant: updateSession changes the entry and does not persist the list.
UpdateSessionFound_NoPersist(c, patch) ==
    /\ Free(c)
    /\ HasSession(sessionList, patch.id)
    /\ sessionList' = ApplyPatch(sessionList, patch)
    /\ Returns(c, "updateSession", patch.id, sessionList', "found")
    /\ UNCHANGED <<lsValue, fetchPromise, lastFetchTime, sessionCache, sessionFetchPromises,
                   now, net>>
    /\ UNCHANGED <<streamVars, pageVars>>

UpdateSessionFound(c, patch) ==
    /\ Free(c)
    /\ HasSession(sessionList, patch.id)
    /\ sessionList' = ApplyPatch(sessionList, patch)
    /\ lsValue' = JSONstringify(sessionList')
    /\ Returns(c, "updateSession", patch.id, sessionList', "found")
    /\ UNCHANGED <<fetchPromise, lastFetchTime, sessionCache, sessionFetchPromises, now, net>>
    /\ UNCHANGED <<streamVars, pageVars>>

\* Mutant: a patch whose id is not listed is inserted.
UpdateSessionMissing_Inserts(c, patch) ==
    /\ Free(c)
    /\ ~HasSession(sessionList, patch.id)
    /\ sessionList' = Append(sessionList, [createEmptySession(patch.id) EXCEPT !.name = patch.name])
    /\ lsValue' = JSONstringify(sessionList')
    /\ Returns(c, "updateSession", patch.id, sessionList', "missing")
    /\ UNCHANGED <<fetchPromise, lastFetchTime, sessionCache, sessionFetchPromises, now, net>>
    /\ UNCHANGED <<streamVars, pageVars>>

\* if (index > -1) is false: nothing but the return.
UpdateSessionMissing(c, patch) ==
    /\ Free(c)
    /\ ~HasSession(sessionList, patch.id)
    /\ Returns(c, "updateSession", patch.id, sessionList, "missing")
    /\ UNCHANGED <<sessionList, lsValue, fetchPromise, lastFetchTime, sessionCache,
                   sessionFetchPromises, now, net>>
    /\ UNCHANGED <<streamVars, pageVars>>

\* The session objects handed to createSession: a new chat without an id yet.
NewSessions == {createEmptySession("")}

\* session.id = Date.now().toString(); this.sessionList.unshift(session)
Unshift(list, session) == <<[session EXCEPT !.id = ToString(now)]>> \o list

\* Mutant: createSession does not persist the list.
CreateSession_NoPersist(c, session) ==
    /\ Free(c)
    /\ Len(sessionList) < MaxList
    /\ sessionList' = Unshift(sessionList, session)
    /\ lastFetchTime' = now
    /\ Returns(c, "createSession", ToString(now), sessionList', "created")
    /\ UNCHANGED <<lsValue, fetchPromise, sessionCache, sessionFetchPromises, now, net>>
    /\ UNCHANGED <<streamVars, pageVars>>

\* Mutant: createSession does not reset the TTL clock.
CreateSession_NoClock(c, session) ==
    /\ Free(c)
    /\ Len(sessionList) < MaxList
    /\ sessionList' = Unshift(sessionList, session)
    /\ lsValue' = JSONstringify(sessionList')
    /\ Returns(c, "createSession", ToString(now), sessionList', "created")
    /\ UNCHANGED <<fetchPromise, lastFetchTime, sessionCache, sessionFetchPromises, now, net>>
    /\ UNCHANGED <<streamVars, pageVars>>

CreateSession(c, session) ==
    /\ Free(c)
    /\ Len(sessionList) < MaxList
    /\ sessionList' = Unshift(sessionList, session)
    /\ lsValue' = JSONstringify(sessionList')
    /\ lastFetchTime' = now
    /\ Returns(c, "createSession", ToString(now), sessionList', "created")
    /\ UNCHANGED <<fetchPromise, sessionCache, sessionFetchPromises, now, net>>
    /\ UNCHANGED <<streamVars, pageVars>>

\* createSession again while the list holds created sessions: the same
\* method, on a list of up to MaxCreated entries.
CreateSessionAgain(c, session) ==
    /\ Free(c)
    /\ Len(sessionList) \in MaxList..(MaxCreated - 1)
    /\ sessionList' = Unshift(sessionList, session)
    /\ lsValue' = JSONstringify(sessionList')
    /\ lastFetchTime' = now
    /\ Returns(c, "createSession", ToString(now), sessionList', "created")
    /\ UNCHANGED <<fetchPromise, sessionCache, sessionFetchPromises, now, net>>
    /\ UNCHANGED <<streamVars, pageVars>>

\* if (!session.id) return [...this.sessionList]
RemoveSessionNoId(c) ==
    /\ Free(c)
    /\ Returns(c, "removeSession", "", sessionList, "noid")
    /\ UNCHANGED <<sessionList, lsValue, fetchPromise, lastFetchTime, sessionCache,
                   sessionFetchPromises, now, net>>
    /\ UNCHANGED <<streamVars, pageVars>>

RemoveSessionStart(c, id) ==
    /\ Free(c)
    /\ id # ""
    /\ net' = [net EXCEPT ![c] = [kind |-> "deleteChat", id |-> id, at |-> 0]]
    /\ Waits(c, "removeSession", id, c, "")
    /\ UNCHANGED <<sessionList, lsValue, fetchPromise, lastFetchTime, sessionCache,
                   sessionFetchPromises, now>>
    /\ UNCHANGED <<streamVars, pageVars>>

\* this.sessionList.filter((item) => item.id !== sessionId), after deleteChat resolved
RemovedOnSuccess(list, id) == SelectSeq(list, LAMBDA item : item.id # id)

\* Mutant: a rejected deleteChat leaves the list alone.
RemovedOnFailure_Keep(list, id) == list

\* this.sessionList.filter((item) => item.id !== session.id), in the catch
RemovedOnFailure(list, id) == SelectSeq(list, LAMBDA item : item.id # id)

\* deleteChat resolved: the rest of the try of removeSession.
DeleteChatResolve(c) ==
    /\ net[c].kind = "deleteChat"
    /\ sessionList' = RemovedOnSuccess(sessionList, net[c].id)
    /\ lsValue' = JSONstringify(sessionList')
    /\ lastFetchTime' = now
    /\ net' = [net EXCEPT ![c] = NoReq]
    /\ calls' = [calls EXCEPT ![c] = IdleCall]
    /\ ret' = [d \in Callers |->
                    IF d = c THEN Fulfilled("removeSession", net[c].id, sessionList', "resolved")
                    ELSE NoRet]
    /\ UNCHANGED <<fetchPromise, sessionCache, sessionFetchPromises, now>>
    /\ UNCHANGED <<streamVars, pageVars>>

\* Mutant: a rejected deleteChat is passed on to the caller of removeSession.
DeleteChatReject_Propagates(c) ==
    /\ net[c].kind = "deleteChat"
    /\ net' = [net EXCEPT ![c] = NoReq]
    /\ calls' = [calls EXCEPT ![c] = IdleCall]
    /\ ret' = [d \in Callers |->
                    IF d = c
                    THEN [op |-> "removeSession", arg |-> net[c].id, st |-> "rejected",
                          res |-> RejectedError, via |-> "rejected"]
                    ELSE NoRet]
    /\ UNCHANGED <<sessionList, lsValue, fetchPromise, lastFetchTime, sessionCache,
                   sessionFetchPromises, now>>
    /\ UNCHANGED <<streamVars, pageVars>>

\* deleteChat rejected: the catch of removeSession.
DeleteChatReject(c) ==
    /\ net[c].kind = "deleteChat"
    /\ sessionList' = RemovedOnFailure(sessionList, net[c].id)
    /\ lsValue' = JSONstringify(sessionList')
    /\ lastFetchTime' = now
    /\ net' = [net EXCEPT ![c] = NoReq]
    /\ calls' = [calls EXCEPT ![c] = IdleCall]
    /\ ret' = [d \in Callers |->
                    IF d = c THEN Fulfilled("removeSession", net[c].id, sessionList', "rejected")
                    ELSE NoRet]
    /\ UNCHANGED <<fetchPromise, sessionCache, sessionFetchPromises, now>>
    /\ UNCHANGED <<streamVars, pageVars>>

---------------------------------------------------------------------------
(* The clock *)

AdvanceClock ==
    /\ now + Tick <= StartTime + MaxTicks * Tick
    /\ now' = now + Tick
    /\ ret' = [d \in Callers |-> NoRet]
    /\ UNCHANGED <<sessionList, lsValue, fetchPromise, lastFetchTime, sessionCache,
                   sessionFetchPromises, net, calls>>
    /\ UNCHANGED <<streamVars, pageVars>>

---------------------------------------------------------------------------
(* The stream assembler: apiClient.sendAgentMessage, parseStreamLine and   *)
(* extractDeltaText.  A text is a sequence of tokens: the characters that  *)
(* delimit (space, \r, \n) one by one, and the words data:, event: and     *)
(* [DONE], a JSON value, and a run of characters that is not JSON, as one  *)
(* token each.  A chunk boundary may fall between any two tokens.          *)

\* The most tokens one reader.read() delivers.
MaxChunk == 3

\* JSON values: undefined, a string, the object under delta, the array under
\* choices and its elements, the parsed payload, and a payload that is no object.
Absent == [k |-> "absent"]
Str(s) == [k |-> "str", s |-> s]
DeltaObject(text, content) == [k |-> "obj", text |-> text, content |-> content]
Choices(items) == [k |-> "arr", items |-> items]
Choice(delta) == [k |-> "obj", delta |-> delta]
Payload(delta, text_delta, token, choices) ==
    [k |-> "obj", delta |-> delta, text_delta |-> text_delta, token |-> token,
     choices |-> choices]
JsonNumber == [k |-> "num"]

Tok(t) == [t |-> t, v |-> Absent]
JsonTok(v) == [t |-> "json", v |-> v]
SP == Tok("sp")
CR == Tok("cr")
NL == Tok("nl")
DATA == Tok("data:")
EVENT == Tok("event:")
DONE == Tok("[DONE]")
JUNK == Tok("junk")

\* The response bodies of the model.
HelloStream ==
    <<DATA, SP, JsonTok(Payload(Str("Hel"), Absent, Absent, Absent)), NL,
      DATA, SP, JsonTok(Payload(Str("lo"), Absent, Absent, Absent)), NL,
      DATA, SP, DONE, NL>>
MixedStream ==
    <<EVENT, SP, JUNK, CR, NL, NL,
      DATA, JsonTok(Payload(Absent, Absent, Str("a"), Absent)), CR, NL,
      JUNK, NL,
      DATA, DONE, NL,
      DATA, SP, NL,
      JsonTok(Payload(Absent, Absent, Absent,
                      Choices(<<Choice(DeltaObject(Absent, Str("b"))), JsonNumber,
                                Choice(DeltaObject(Absent, Str("c")))>>))), NL,
      DATA, SP, JsonTok(Payload(DeltaObject(Str("d"), Absent), Absent, Absent, Absent))>>
ShapesStream ==
    <<JsonTok(JsonNumber), NL,
      DATA, JsonTok(Payload(Str(""), Str("x"), Absent, Absent)), NL,
      DATA, SP, JsonTok(Payload(Absent, Str("e"), Str("y"), Absent)), SP, CR, NL,
      DATA, DATA, JsonTok(Payload(Str("z"), Absent, Absent, Absent)), NL,
      JsonTok(Payload(DeltaObject(Absent, Str("f")), Absent, Absent, Absent)), NL>>
Streams == {HelloStream, MixedStream, ShapesStream}

ReaderAtRest == [st |-> "idle", handler |-> FALSE]

RECURSIVE ChoicesText(_)
\* for (const choice of record.choices) { ... text += content }
ChoicesText(items) ==
    IF Len(items) = 0 THEN ""
    ELSE LET choice == Head(items)
             content == IF choice.k = "obj" /\ choice.delta.k = "obj"
                            /\ choice.delta.content.k = "str"
                        THEN choice.delta.content.s ELSE ""
         IN content \o ChoicesText(Tail(items))

\* Mutant: token is looked at before text_delta.
extractDeltaText_TokenFirst(payload) ==
    IF payload.k # "obj" THEN ""
    ELSE IF payload.delta.k = "str" THEN payload.delta.s
    ELSE IF payload.delta.k = "obj" /\ payload.delta.text.k = "str" THEN payload.delta.text.s
    ELSE IF payload.delta.k = "obj" /\ payload.delta.content.k = "str"
         THEN payload.delta.content.s
    ELSE IF payload.token.k = "str" THEN payload.token.s
    ELSE IF payload.text_delta.k = "str" THEN payload.text_delta.s
    ELSE IF payload.choices.k = "arr" THEN ChoicesText(payload.choices.items)
    ELSE ""

extractDeltaText(payload) ==
    IF payload.k # "obj" THEN ""
    ELSE IF payload.delta.k = "str" THEN payload.delta.s
    ELSE IF payload.delta.k = "obj" /\ payload.delta.text.k = "str" THEN payload.delta.text.s
    ELSE IF payload.delta.k = "obj" /\ payload.delta.content.k = "str"
         THEN payload.delta.content.s
    ELSE IF payload.text_delta.k = "str" THEN payload.text_delta.s
    ELSE IF payload.token.k = "str" THEN payload.token.s
    ELSE IF payload.choices.k = "arr" THEN ChoicesText(payload.choices.items)
    ELSE ""

\* String.prototype.trim
IsSpace(tok) == tok.t \in {"sp", "cr", "nl"}
RECURSIVE TrimLeft(_)
TrimLeft(text) ==
    IF Len(text) > 0 /\ IsSpace(Head(text)) THEN TrimLeft(Tail(text)) ELSE text
RECURSIVE TrimRight(_)
TrimRight(text) ==
    IF Len(text) > 0 /\ IsSpace(text[Len(text)])
    THEN TrimRight(SubSeq(text, 1, Len(text) - 1)) ELSE text
Trim(text) == TrimRight(TrimLeft(text))

\* JSON.parse(rawPayload) returns: the text is one JSON value; else it throws.
IsJSON(text) == Len(text) = 1 /\ text[1].t = "json"

\* Mutant: the data: prefix is not stripped.
RawPayload_NoStrip(trimmed) == trimmed

\* trimmed.startsWith("data:") ? trimmed.slice(5).trim() : trimmed
RawPayload(trimmed) ==
    IF trimmed[1].t = "data:" THEN Trim(Tail(trimmed)) ELSE trimmed

\* Mutant: a payload that is no JSON is passed to the handler as text.
NotJSON_Delivered(rawPayload) == <<"text">>

\* catch { }: a payload JSON.parse throws on invokes nothing.
NotJSON(rawPayload) == <<>>

\* parseStreamLine: the arguments it invokes onTextChunk with, in order.
parseStreamLine(line, onTextChunk) ==
    IF ~onTextChunk THEN <<>>
    ELSE LET trimmed == Trim(line) IN
         IF Len(trimmed) = 0 \/ trimmed[1].t = "event:" THEN <<>>
         ELSE LET rawPayload == RawPayload(trimmed) IN
              IF Len(rawPayload) = 0 \/ rawPayload = <<DONE>> THEN <<>>
              ELSE IF ~IsJSON(rawPayload) THEN NotJSON(rawPayload)
              ELSE LET delta == extractDeltaText(rawPayload[1].v)
                   IN IF delta # "" THEN <<delta>> ELSE <<>>

\* buffer.split(/\r?\n/): the segments between the line ends, the last one
\* being what follows the last line end.
RECURSIVE SplitLines(_, _, _)
SplitLines(rest, segment, segments) ==
    IF Len(rest) = 0 THEN Append(segments, segment)
    ELSE IF Head(rest).t = "nl"
         THEN LET line == IF Len(segment) > 0 /\ segment[Len(segment)].t = "cr"
                          THEN SubSeq(segment, 1, Len(segment) - 1) ELSE segment
              IN SplitLines(Tail(rest), <<>>, Append(segments, line))
         ELSE SplitLines(Tail(rest), Append(segment, Head(rest)), segments)
Split(text) == SplitLines(text, <<>>, <<>>)

RECURSIVE ParseLines(_, _)
\* for (const line of lines) parseStreamLine(line, onTextChunk)
ParseLines(lines, onTextChunk) ==
    IF Len(lines) = 0 THEN <<>>
    ELSE parseStreamLine(Head(lines), onTextChunk) \o ParseLines(Tail(lines), onTextChunk)

\* sendAgentMessage is called on a response body, with or without a handler.
SendAgentMessage(text, onTextChunk) ==
    /\ reader.st = "idle"
    /\ body' = text
    /\ reader' = [st |-> "fetching", handler |-> onTextChunk]
    /\ UNCHANGED <<readPos, buffer, invocations>>
    /\ UNCHANGED <<storeVars, pageVars>>

\* requestStream throws: fetch failed, or the status is not a success.
RequestStreamReject ==
    /\ reader.st = "fetching"
    /\ reader' = [reader EXCEPT !.st = "rejected"]
    /\ UNCHANGED <<body, readPos, buffer, invocations>>
    /\ UNCHANGED <<storeVars, pageVars>>

\* requestStream returns the response; without a body sendAgentMessage returns.
RequestStreamResolve(hasBody) ==
    /\ reader.st = "fetching"
    /\ reader' = [reader EXCEPT !.st = IF hasBody THEN "reading" ELSE "resolved"]
    /\ UNCHANGED <<body, readPos, buffer, invocations>>
    /\ UNCHANGED <<storeVars, pageVars>>

\* The sizes of the chunks: up to MaxChunk tokens, or the whole body.
ChunkSizes == (1..MaxChunk) \cup {Len(body)}

\* Mutant: the read loop ends after a chunk that completes a [DONE] line.
ReadChunk_StopsAtDone(n) ==
    /\ reader.st = "reading"
    /\ readPos + n <= Len(body)
    /\ LET value == SubSeq(body, readPos + 1, readPos + n)
           lines == Split(buffer \o value)
           complete == SubSeq(lines, 1, Len(lines) - 1)
           done == \E k \in 1..Len(complete) :
                      Len(Trim(complete[k])) > 0 /\ RawPayload(Trim(complete[k])) = <<DONE>>
       IN /\ buffer' = lines[Len(lines)]
          /\ invocations' = invocations \o ParseLines(complete, reader.handler)
          /\ reader' = IF done THEN [reader EXCEPT !.st = "resolved"] ELSE reader
    /\ readPos' = readPos + n
    /\ UNCHANGED body
    /\ UNCHANGED <<storeVars, pageVars>>

\* Mutant: every segment is parsed at once and nothing is retained.
ReadChunk_NoBuffer(n) ==
    /\ reader.st = "reading"
    /\ readPos + n <= Len(body)
    /\ LET value == SubSeq(body, readPos + 1, readPos + n)
           lines == Split(buffer \o value)
       IN /\ buffer' = <<>>
          /\ invocations' = invocations \o ParseLines(lines, reader.handler)
    /\ readPos' = readPos + n
    /\ UNCHANGED <<body, reader>>
    /\ UNCHANGED <<storeVars, pageVars>>

\* reader.read() resolves with the next n tokens of the body.
ReadChunk(n) ==
    /\ reader.st = "reading"
    /\ readPos + n <= Len(body)
    /\ LET value == SubSeq(body, readPos + 1, readPos + n)
           lines == Split(buffer \o value)
       IN /\ buffer' = lines[Len(lines)]
          /\ invocations' =
                invocations \o ParseLines(SubSeq(lines, 1, Len(lines) - 1), reader.handler)
    /\ readPos' = readPos + n
    /\ UNCHANGED <<body, reader>>
    /\ UNCHANGED <<storeVars, pageVars>>

\* Mutant: the buffer is dropped when the stream ends.
ReadDone_DropsBuffer ==
    /\ reader.st = "reading"
    /\ readPos = Len(body)
    /\ invocations' = invocations
    /\ reader' = [reader EXCEPT !.st = "resolved"]
    /\ UNCHANGED <<body, readPos, buffer>>
    /\ UNCHANGED <<storeVars, pageVars>>

\* reader.read() resolves with done: the rest of the buffer is parsed, the
\* lock released, and sendAgentMessage resolves.
ReadDone ==
    /\ reader.st = "reading"
    /\ readPos = Len(body)
    /\ invocations' =
          IF Len(buffer) > 0 THEN invocations \o parseStreamLine(buffer, reader.handler)
          ELSE invocations
    /\ reader' = [reader EXCEPT !.st = "resolved"]
    /\ UNCHANGED <<body, readPos, buffer>>
    /\ UNCHANGED <<storeVars, pageVars>>

\* reader.read() rejects (the connection drops): the lock is released and
\* sendAgentMessage rejects.
ReadReject ==
    /\ reader.st = "reading"
    /\ reader' = [reader EXCEPT !.st = "rejected"]
    /\ UNCHANGED <<body, readPos, buffer, invocations>>
    /\ UNCHANGED <<storeVars, pageVars>>

\* The parsed payloads parseStreamLine is tried on: every combination of
\* these values of delta, text_delta, token and choices, and a payload that
\* is not an object.
DeltaShapes ==
    {Absent, Str("d"), Str(""), JsonNumber, DeltaObject(Absent, Absent),
     DeltaObject(Str("x"), Str("y")), DeltaObject(Absent, Str("y")),
     DeltaObject(JsonNumber, Str("y")), DeltaObject(Str("x"), Absent)}
TextDeltaShapes == {Absent, Str("t"), JsonNumber}
TokenShapes == {Absent, Str("k")}
ChoicesShapes ==
    {Absent, Choices(<<>>),
     Choices(<<Choice(DeltaObject(Absent, Str("b"))), JsonNumber, Choice(Absent),
               Choice(DeltaObject(Str("x"), Str("c")))>>)}
PayloadShapes ==
    {Payload(delta, text_delta, token, choices) :
        delta \in DeltaShapes, text_delta \in TextDeltaShapes,
        token \in TokenShapes, choices \in ChoicesShapes} \cup {JsonNumber}

\* The lines that carry a payload: with the data: prefix and bare.
PayloadLines ==
    {<<DATA, SP, JsonTok(payload)>> : payload \in PayloadShapes}
        \cup {<<JsonTok(payload)>> : payload \in PayloadShapes}

\* parseStreamLine(line, onTextChunk) is called on one line, with a handler.
ParseLine(line) ==
    /\ reader.st = "idle"
    /\ body' = line
    /\ invocations' = parseStreamLine(line, TRUE)
    /\ reader' = [st |-> "parsed", handler |-> TRUE]
    /\ UNCHANGED <<readPos, buffer>>
    /\ UNCHANGED <<storeVars, pageVars>>

StreamAtRest ==
    /\ body = <<>>
    /\ readPos = 0
    /\ buffer = <<>>
    /\ invocations = <<>>
    /\ reader = ReaderAtRest

---------------------------------------------------------------------------
(* The chat page: ChatPage.sendMessage with the polling timer, the stream  *)
(* handler, loadChats and loadHistory.  State set by a handler is seen by  *)
(* every handler that runs after it.  Left out: the chats list and the     *)
(* draft (the text is an argument of the send), the loading flags, and the *)
(* effects that reload on a change of activeChatId.  The sends start at    *)
(* different milliseconds, so their ids differ.                            *)

\* The invocations of sendMessage that get past its first test.
MaxSends == 1

SendIds == 1..MaxSends

\* The deltas the stream of a send invokes the handler with, in order.
Script == <<"Hel", "lo">>

\* The drafts the user sends.
Texts == {"hi"}

Message(id, role, text) == [id |-> id, role |-> role, text |-> text]

\* The history the server keeps for the chat: for each send it has handled,
\* the user's message and the reply, stored together.
ServerMessage(k) ==
    Message("msg-" \o ToString(k),
            IF k % 2 = 1 THEN "user" ELSE "assistant",
            IF k % 2 = 1 THEN "hi" ELSE "Hello")
ServerHistory(version) == [k \in 1..(2 * version) |-> ServerMessage(k)]

\* `local-${Date.now()}` and `stream-assistant-${Date.now()}` of the i-th send
OptimisticId(i) == "local-" \o ToString(i)
StreamAssistantId(i) == "stream-assistant-" \o ToString(i)

\* The messages the error state is set to.
SendFailed == "send failed"
LoadChatsFailed == "load chats failed"
LoadHistoryFailed == "load history failed"
CreateChatFailed == "create chat failed"

\* A sendMessage that was not called.  pc is where the call stands; received,
\* clears, outcome, chatsIssued, historyIssued, since and final record what
\* it did: the handler invocations, the clearInterval calls, how the send
\* request settled, the listChats and getChatHistory requests of its finally,
\* the server version when the last was sent and how it settled.
IdleSend ==
    [pc |-> "idle", text |-> "", pollTimer |-> FALSE, hasStreamChunk |-> FALSE,
     streamedText |-> "", received |-> 0, clears |-> 0, outcome |-> "none",
     chatsIssued |-> 0, historyIssued |-> 0, since |-> 0, final |-> "none"]

PageAtRest ==
    /\ history = <<>>
    /\ error = ""
    /\ sending = FALSE
    /\ activeChat = FALSE
    /\ sends = [i \in SendIds |-> IdleSend]
    /\ polls = {}
    /\ serverVersion = 0

\* loadChats of the mount finds chats: setActiveChatId(sorted[0].id).
SelectChat ==
    /\ ~activeChat
    /\ \A i \in SendIds : sends[i].pc = "idle"
    /\ activeChat' = TRUE
    /\ UNCHANGED <<history, error, sending, sends, polls, serverVersion>>
    /\ UNCHANGED <<storeVars, streamVars>>

\* Mutant: Sending is entered without starting the polling timer.
Entered_NoTimer(i, text) ==
    [IdleSend EXCEPT !.pc = "sending", !.text = text]

\* Lines 143-159 of sendMessage: the state on entry to Sending.
Entered(i, text) ==
    [IdleSend EXCEPT !.pc = "sending", !.text = text, !.pollTimer = TRUE]
EnterSending(i, text) ==
    /\ error' = ""
    /\ sending' = TRUE
    /\ history' = Append(history, Message(OptimisticId(i), "user", text))
    /\ sends' = [sends EXCEPT ![i] = Entered(i, text)]

\* if (!text || sending) return, on the trimmed draft
Refused(text) == text = "" \/ sending

\* sendMessage is invoked: with an active chat it goes on to Sending, without
\* one it awaits createChat first.
SendMessage(i, text) ==
    /\ sends[i].pc = "idle"
    /\ \A j \in 1..(i - 1) : sends[j].pc # "idle"
    /\ ~Refused(text)
    /\ IF activeChat
       THEN EnterSending(i, text)
       ELSE /\ sends' = [sends EXCEPT ![i] = [IdleSend EXCEPT !.pc = "creating", !.text = text]]
            /\ UNCHANGED <<history, error, sending>>
    /\ UNCHANGED <<activeChat, polls, serverVersion>>
    /\ UNCHANGED <<storeVars, streamVars>>

\* createChat resolved: createNewChat returns the chat, sendMessage goes on.
CreateChatResolve(i) ==
    /\ sends[i].pc = "creating"
    /\ activeChat' = TRUE
    /\ EnterSending(i, sends[i].text)
    /\ UNCHANGED <<polls, serverVersion>>
    /\ UNCHANGED <<storeVars, streamVars>>

\* createChat rejected: createNewChat sets the error, sendMessage returns.
CreateChatReject(i) ==
    /\ sends[i].pc = "creating"
    /\ error' = CreateChatFailed
    /\ sends' = [sends EXCEPT ![i].pc = "done", ![i].outcome = "nochat"]
    /\ UNCHANGED <<history, sending, activeChat, polls, serverVersion>>
    /\ UNCHANGED <<storeVars, streamVars>>

\* The getChatHistory requests of the polling timers that are in flight at a time.
MaxPolls == 1

\* The interval fires: loadHistory(chat.id, true) up to its await.  The
\* request names the chat only, so requests sent at one version are one.
PollFires(i) ==
    /\ sends[i].pollTimer
    /\ Cardinality(polls) < MaxPolls
    /\ polls' = polls \cup {serverVersion}
    /\ UNCHANGED <<history, error, sending, activeChat, sends, serverVersion>>
    /\ UNCHANGED <<storeVars, streamVars>>

\* The versions of the server history a request sent at that version may return.
Versions(since) == since..serverVersion

\* getChatHistory of a poll resolved: setHistory(detail.messages ?? []).
PollResolve(poll, version) ==
    /\ poll \in polls
    /\ version \in Versions(poll)
    /\ history' = ServerHistory(version)
    /\ polls' = polls \ {poll}
    /\ UNCHANGED <<error, sending, activeChat, sends, serverVersion>>
    /\ UNCHANGED <<storeVars, streamVars>>

\* getChatHistory of a poll rejected: the catch of loadHistory.
PollReject(poll) ==
    /\ poll \in polls
    /\ error' = LoadHistoryFailed
    /\ polls' = polls \ {poll}
    /\ UNCHANGED <<history, sending, activeChat, sends, serverVersion>>
    /\ UNCHANGED <<storeVars, streamVars>>

\* Mutant: the assistant draft is appended on every delta.
ReplaceById_Append(prev, message) == Append(prev, message)

\* The updater of setHistory in the stream handler: replace the message with
\* that id, or append it when there is none.
ReplaceById(prev, message) ==
    IF \E index \in 1..Len(prev) : prev[index].id = message.id
    THEN LET index == CHOOSE k \in 1..Len(prev) :
                          /\ prev[k].id = message.id
                          /\ \A j \in 1..(k - 1) : prev[j].id # message.id
         IN [prev EXCEPT ![index] = message]
    ELSE Append(prev, message)

\* Mutant: the polling timer is not cleared on the first delta.
FirstChunk_KeepTimer(send) == [send EXCEPT !.hasStreamChunk = TRUE]

\* if (!hasStreamChunk) { hasStreamChunk = true; window.clearInterval(pollTimer) }
FirstChunk(send) ==
    [send EXCEPT !.hasStreamChunk = TRUE, !.pollTimer = FALSE, !.clears = send.clears + 1]

\* The stream handler of the i-th send is invoked with chunk.
OnTextChunk(i, chunk) ==
    IF chunk = ""
    THEN UNCHANGED <<sends, history>>
    ELSE LET streamedText == sends[i].streamedText \o chunk
             send == IF sends[i].hasStreamChunk THEN sends[i] ELSE FirstChunk(sends[i])
         IN /\ sends' = [sends EXCEPT ![i] = [send EXCEPT !.streamedText = streamedText,
                                                         !.received = send.received + 1]]
            /\ history' = ReplaceById(history,
                              Message(StreamAssistantId(i), "assistant", streamedText))

\* The stream of the i-th send delivers its next delta.
StreamDelta(i) ==
    /\ sends[i].pc = "sending"
    /\ sends[i].received < Len(Script)
    /\ OnTextChunk(i, Script[sends[i].received + 1])
    /\ UNCHANGED <<error, sending, activeChat, polls, serverVersion>>
    /\ UNCHANGED <<storeVars, streamVars>>

\* loadChats up to its await: setError(null), whatever the error state was.
LoadChatsStart(current) == ""

\* Mutant: the finally does not call clearInterval.
Settled_TimerRuns(send, outcome) ==
    [send EXCEPT !.pc = "loadChats", !.outcome = outcome,
                 !.chatsIssued = send.chatsIssued + 1]

\* The finally of sendMessage up to the await of loadChats.
Settled(send, outcome) ==
    [send EXCEPT !.pc = "loadChats", !.outcome = outcome, !.pollTimer = FALSE,
                 !.clears = send.clears + 1, !.chatsIssued = send.chatsIssued + 1]

\* sendAgentMessage resolved: the finally of sendMessage, and loadChats up to
\* its await.
SendResolve(i) ==
    /\ sends[i].pc = "sending"
    /\ sending' = FALSE
    /\ error' = LoadChatsStart(error)
    /\ sends' = [sends EXCEPT ![i] = Settled(sends[i], "resolved")]
    /\ UNCHANGED <<history, activeChat, polls, serverVersion>>
    /\ UNCHANGED <<storeVars, streamVars>>

\* sendAgentMessage rejected: the catch sets the error, then the finally of
\* sendMessage, and loadChats up to its await.
SendReject(i) ==
    /\ sends[i].pc = "sending"
    /\ sending' = FALSE
    /\ error' = LoadChatsStart(SendFailed)
    /\ sends' = [sends EXCEPT ![i] = Settled(sends[i], "rejected")]
    /\ UNCHANGED <<history, activeChat, polls, serverVersion>>
    /\ UNCHANGED <<storeVars, streamVars>>

\* loadChats is over: sendMessage calls loadHistory(chat.id), up to its await.
RefetchStarted(send) ==
    [send EXCEPT !.pc = "loadHistory", !.historyIssued = send.historyIssued + 1,
                 !.since = serverVersion]

\* Mutant: a failed loadChats ends the send operation.
AfterLoadChatsFailed_Stop(send) == [send EXCEPT !.pc = "done"]

\* loadChats catches its error, so sendMessage goes on to loadHistory.
AfterLoadChatsFailed(send) == RefetchStarted(send)

\* listChats of the finally resolved.
LoadChatsResolve(i) ==
    /\ sends[i].pc = "loadChats"
    /\ sends' = [sends EXCEPT ![i] = RefetchStarted(sends[i])]
    /\ UNCHANGED <<history, error, sending, activeChat, polls, serverVersion>>
    /\ UNCHANGED <<storeVars, streamVars>>

\* listChats of the finally rejected: the catch of loadChats sets the error.
LoadChatsReject(i) ==
    /\ sends[i].pc = "loadChats"
    /\ error' = LoadChatsFailed
    /\ sends' = [sends EXCEPT ![i] = AfterLoadChatsFailed(sends[i])]
    /\ UNCHANGED <<history, sending, activeChat, polls, serverVersion>>
    /\ UNCHANGED <<storeVars, streamVars>>

\* getChatHistory of the finally resolved: the send operation is over.
LoadHistoryResolve(i, version) ==
    /\ sends[i].pc = "loadHistory"
    /\ version \in Versions(sends[i].since)
    /\ history' = ServerHistory(version)
    /\ sends' = [sends EXCEPT ![i].pc = "done", ![i].final = "ok", ![i].since = 0]
    /\ UNCHANGED <<error, sending, activeChat, polls, serverVersion>>
    /\ UNCHANGED <<storeVars, streamVars>>

\* getChatHistory of the finally rejected: the catch of loadHistory.
LoadHistoryReject(i) ==
    /\ sends[i].pc = "loadHistory"
    /\ error' = LoadHistoryFailed
    /\ sends' = [sends EXCEPT ![i].pc = "done", ![i].final = "failed", ![i].since = 0]
    /\ UNCHANGED <<history, sending, activeChat, polls, serverVersion>>
    /\ UNCHANGED <<storeVars, streamVars>>

\* The sends whose request has reached the server.
Requested == {i \in SendIds : sends[i].outcome # "nochat" /\ sends[i].pc \notin {"idle", "creating"}}

\* The server stores the message of a send and the reply to it, while it
\* serves the request of a send.
ServerAppends ==
    /\ \E i \in SendIds : sends[i].pc = "sending"
    /\ serverVersion < Cardinality(Requested)
    /\ serverVersion' = serverVersion + 1
    /\ UNCHANGED <<history, error, sending, activeChat, sends, polls>>
    /\ UNCHANGED <<storeVars, streamVars>>

---------------------------------------------------------------------------
(* The specifications *)

Init == StoreInit /\ StreamAtRest /\ PageAtRest


\* The list, its TTL and the mutating methods.
Next ==
    \/ \E c \in Callers : GetSessionListJoin(c)
    \/ \E c \in Callers : GetSessionListCached(c)
    \/ \E c \in Callers : GetSessionListFetch(c)
    \/ \E c \in Callers, payload \in ServerPayloads : ListChatsResolve(c, payload)
    \/ \E c \in Callers : ListChatsReject(c)
    \/ \E c \in Callers, patch \in Patches : UpdateSessionFound(c, patch)
    \/ \E c \in Callers, patch \in Patches : UpdateSessionMissing(c, patch)
    \/ \E c \in Callers, session \in NewSessions : CreateSession(c, session)
    \/ \E c \in Callers : RemoveSessionNoId(c)
    \/ \E c \in Callers, id \in KnownIds : RemoveSessionStart(c, id)
    \/ \E c \in Callers : DeleteChatResolve(c)
    \/ \E c \in Callers : DeleteChatReject(c)
    \/ AdvanceClock

Spec == Init /\ [][Next]_vars

\* The ids getSession is asked for: the sentinels, the server's ids, the ids
\* of the listed sessions and one numeric id that may not be listed.
QueryIds == SentinelIds \cup KnownIds \cup {ToString(StartTime)}

\* The session details, over a list that new chats and the fallback to the
\* persisted list fill.
DetailNext ==
    \/ \E c \in Callers, id \in QueryIds : GetSession(c, id)
    \/ \E c \in Callers, remoteSession \in RemoteSessions : GetChatResolve(c, remoteSession)
    \/ \E c \in Callers : GetChatReject(c)
    \/ \E c \in Callers : GetSessionListFetch(c)
    \/ \E c \in Callers : ListChatsReject(c)
    \/ \E c \in Callers, session \in NewSessions : CreateSession(c, session)
    \/ AdvanceClock

SpecDetail == Init /\ [][DetailNext]_vars

\* The two reads together: the list and the details, each with its request
\* resolving and rejecting.  The server lists no chat, or chat a; the details
\* are asked for a sentinel id, a numeric id and chat a.
ReadPayloads == {<<>>, <<ServerSummary("a")>>}
ReadIds == {"undefined", ToString(StartTime), "a"}

ReadsNext ==
    \/ \E c \in Callers : GetSessionListJoin(c)
    \/ \E c \in Callers : GetSessionListCached(c)
    \/ \E c \in Callers : GetSessionListFetch(c)
    \/ \E c \in Callers, payload \in ReadPayloads : ListChatsResolve(c, payload)
    \/ \E c \in Callers : ListChatsReject(c)
    \/ \E c \in Callers, id \in ReadIds : GetSession(c, id)
    \/ \E c \in Callers, remoteSession \in RemoteSessions : GetChatResolve(c, remoteSession)
    \/ \E c \in Callers : GetChatReject(c)
    \/ AdvanceClock

SpecReads == Init /\ [][ReadsNext]_vars

\* The mutating methods on a list that createSession fills, up to MaxCreated
\* entries.
MutationsNext ==
    \/ \E c \in Callers, session \in NewSessions : CreateSession(c, session)
    \/ \E c \in Callers, session \in NewSessions : CreateSessionAgain(c, session)
    \/ \E c \in Callers, patch \in Patches : UpdateSessionFound(c, patch)
    \/ \E c \in Callers, patch \in Patches : UpdateSessionMissing(c, patch)
    \/ \E c \in Callers : RemoveSessionNoId(c)
    \/ \E c \in Callers, id \in KnownIds : RemoveSessionStart(c, id)
    \/ \E c \in Callers : DeleteChatResolve(c)
    \/ \E c \in Callers : DeleteChatReject(c)
    \/ AdvanceClock

SpecMutations == Init /\ [][MutationsNext]_vars

\* The stream assembler on the response bodies of the model, cut into chunks
\* in every way.
StreamNext ==
    \/ \E text \in Streams, onTextChunk \in BOOLEAN : SendAgentMessage(text, onTextChunk)
    \/ RequestStreamReject
    \/ \E hasBody \in BOOLEAN : RequestStreamResolve(hasBody)
    \/ \E n \in ChunkSizes : ReadChunk(n)
    \/ ReadDone
    \/ ReadReject

SpecStream == Init /\ [][StreamNext]_vars

\* parseStreamLine on one line, for every payload of the model.
ParseNext == \E line \in PayloadLines : ParseLine(line)

SpecParse == Init /\ [][ParseNext]_vars

\* The send operation of the chat page, with the server behind it.
SendNext ==
    \/ SelectChat
    \/ \E i \in SendIds, text \in Texts : SendMessage(i, text)
    \/ \E i \in SendIds : CreateChatResolve(i)
    \/ \E i \in SendIds : CreateChatReject(i)
    \/ \E i \in SendIds : PollFires(i)
    \/ \E poll \in polls, version \in 0..serverVersion : PollResolve(poll, version)
    \/ \E poll \in polls : PollReject(poll)
    \/ \E i \in SendIds : StreamDelta(i)
    \/ \E i \in SendIds : SendResolve(i)
    \/ \E i \in SendIds : SendReject(i)
    \/ \E i \in SendIds : LoadChatsResolve(i)
    \/ \E i \in SendIds : LoadChatsReject(i)
    \/ \E i \in SendIds, version \in 0..serverVersion : LoadHistoryResolve(i, version)
    \/ \E i \in SendIds : LoadHistoryReject(i)
    \/ ServerAppends

SpecSend == Init /\ [][SendNext]_vars

---------------------------------------------------------------------------
(* Vocabulary of the properties *)

\* Call c is made in this step (it was not in progress before it).
IssuesList(c) ==
    /\ calls[c].st = "idle"
    /\ \/ calls'[c].st = "pending" /\ calls'[c].op = "getSessionList"
       \/ ret'[c].op = "getSessionList"

IssuesGet(c, id) ==
    /\ calls[c].st = "idle"
    /\ \/ calls'[c].st = "pending" /\ calls'[c].op = "getSession" /\ calls'[c].arg = id
       \/ ret'[c].op = "getSession" /\ ret'[c].arg = id

\* The calls of getSessionList that have not settled, and the listChats and
\* getChat requests that are outstanding.
ListWaiters == {c \in Callers : calls[c].st = "pending" /\ calls[c].op = "getSessionList"}
ListRequests == {c \in Callers : net[c].kind = "listChats"}
ChatRequests(id) == {c \in Callers : net[c].kind = "getChat" /\ net[c].id = id}

\* The list deserialized from the Persistent Store, empty when nothing is stored.
PersistedList == IF lsValue.present THEN lsValue.text ELSE <<>>

\* The in-memory entry with that id, or a synthesized empty session.
LocalOrEmpty(id) ==
    IF \E i \in 1..Len(sessionList) : sessionList[i].id = id
    THEN sessionList[CHOOSE i \in 1..Len(sessionList) :
                        sessionList[i].id = id /\ \A j \in 1..(i - 1) : sessionList[j].id # id]
    ELSE [id |-> id, name |-> "New Chat", sessionId |-> id, userId |-> "default",
          channel |-> "console", messages |-> <<>>, meta |-> <<>>]

---------------------------------------------------------------------------
(* C1  Single-flight list read: while calls of getSessionList are waiting, *)
(* exactly one listChats request is outstanding, and the waiting calls all *)
(* settle together, fulfilled with the same value, on success and on       *)
(* fallback.                                                               *)

C1_SingleFlightList ==
    [][ /\ ListWaiters' # {} => Cardinality(ListRequests') = 1
        /\ \A c \in ListWaiters : c \notin ListWaiters' =>
              \A d \in ListWaiters :
                  /\ d \notin ListWaiters'
                  /\ ret'[d].st = "fulfilled"
                  /\ ret'[d].res = ret'[c].res ]_vars

\* Two calls that waited on the same fetch have settled with the same list.
C1_Witness ==
    \E c \in Callers, d \in Callers :
        /\ c # d
        /\ ret[c].op = "getSessionList" /\ ret[d].op = "getSessionList"
        /\ ret[c].st = "fulfilled" /\ ret[d].st = "fulfilled"
        /\ ret[c].res = ret[d].res
        /\ Len(ret[c].res) > 0

---------------------------------------------------------------------------
(* C2  Single-flight detail read: at most one getChat request per id is    *)
(* outstanding, and a getSession(id) made while one is in flight is left   *)
(* waiting on it without a new request.                                    *)

C2_SingleFlightDetail ==
    [][ /\ \A id \in ServerIds : Cardinality(ChatRequests(id)') <= 1
        /\ \A c \in Callers, id \in ServerIds :
              (IssuesGet(c, id) /\ ChatRequests(id) # {}) =>
                  /\ net' = net
                  /\ calls'[c].st = "pending"
                  /\ calls'[c].awaits \in ChatRequests(id) ]_vars

\* A call is waiting on the request another call started.
C2_Witness ==
    \E c \in Callers :
        /\ calls[c].st = "pending" /\ calls[c].op = "getSession"
        /\ calls[c].awaits # c
        /\ calls[c].awaits \in ChatRequests(calls[c].arg)

---------------------------------------------------------------------------
(* C3  When the getChat request for id fails, every call of getSession(id) *)
(* that waited on it, the one that started it and those that joined it,    *)
(* is fulfilled with the same fallback: the in-memory entry with that id,  *)
(* or a synthesized empty session.                                         *)

C3_JoinedReadsNeverRaise ==
    [][ \A c \in Callers : GetChatReject(c) =>
            \A d \in Callers :
                (calls[d].st = "pending" /\ calls[d].op = "getSession"
                    /\ calls[d].arg = net[c].id) =>
                    /\ ret'[d].st = "fulfilled"
                    /\ ret'[d].res = LocalOrEmpty(net[c].id) ]_vars

---------------------------------------------------------------------------
(* C4  Fallback availability: when listChats fails, every waiting call of  *)
(* getSessionList is fulfilled with the list deserialized from the         *)
(* Persistent Store (empty when nothing is stored), and the in-memory list *)
(* becomes that list.                                                      *)

C4_FallbackAvailability ==
    [][ \A c \in Callers : ListChatsReject(c) =>
            /\ sessionList' = PersistedList
            /\ c \in ListWaiters
            /\ \A d \in ListWaiters :
                  /\ ret'[d].st = "fulfilled"
                  /\ ret'[d].res = PersistedList ]_vars

\* A call has been served the persisted list after a failed fetch, before
\* anything else has set the TTL clock.
C4_Witness ==
    \E c \in Callers :
        /\ ret[c].op = "getSessionList" /\ ret[c].via = "fallback"
        /\ lastFetchTime = 0
        /\ Len(ret[c].res) = 2
        /\ ret[c].res = lsValue.text
        /\ sessionList = lsValue.text

---------------------------------------------------------------------------
(* C5  TTL expiry: a getSessionList made when no fetch is pending and      *)
(* now - lastFetchTime >= 5000 starts exactly one listChats request, also  *)
(* when the cached list is not empty.                                      *)

C5_TTLExpiry ==
    [][ \A c \in Callers :
            (IssuesList(c) /\ fetchPromise = NoPromise /\ now - lastFetchTime >= 5000) =>
                /\ net'[c].kind = "listChats"
                /\ \A d \in Callers \ {c} : net'[d] = net[d]
                /\ calls'[c].st = "pending" ]_vars

\* A fetch was started over a non-empty list because its TTL had run out.
C5_Witness ==
    \E c \in Callers :
        /\ net[c].kind = "listChats"
        /\ calls[c].why = "expired"
        /\ lastFetchTime > 0

---------------------------------------------------------------------------
(* C6  TTL hit: a getSessionList made when no fetch is pending, the list   *)
(* is not empty and now - lastFetchTime < 5000 makes no request, leaves    *)
(* the in-memory list, the persisted list and the TTL clock unchanged, and *)
(* returns the in-memory list.                                             *)

C6_TTLHit ==
    [][ \A c \in Callers :
            (IssuesList(c) /\ fetchPromise = NoPromise /\ Len(sessionList) > 0
                /\ now - lastFetchTime < 5000) =>
                /\ net' = net
                /\ sessionList' = sessionList
                /\ lsValue' = lsValue
                /\ lastFetchTime' = lastFetchTime
                /\ fetchPromise' = fetchPromise
                /\ ret'[c].st = "fulfilled"
                /\ ret'[c].res = sessionList ]_vars

\* A call has been served from the cache some time after the last fetch.
C6_Witness ==
    \E c \in Callers :
        /\ ret[c].op = "getSessionList" /\ ret[c].via = "cached"
        /\ now - lastFetchTime > 0
        /\ Len(ret[c].res) > 0

---------------------------------------------------------------------------
(* C7  Numeric-id isolation: getSession with a purely numeric id makes no  *)
(* request, creates no cache entry and no pending request, and returns the *)
(* in-memory entry with that id, or a synthesized empty session.           *)

C7_NumericIdIsolation ==
    [][ \A c \in Callers, id \in NumericIds :
            IssuesGet(c, id) =>
                /\ net' = net
                /\ sessionCache' = sessionCache
                /\ sessionFetchPromises' = sessionFetchPromises
                /\ calls' = calls
                /\ ret'[c].st = "fulfilled"
                /\ ret'[c].res = LocalOrEmpty(id) ]_vars

\* A numeric id has been resolved to the entry createSession put in the list.
C7_Witness ==
    \E c \in Callers :
        /\ ret[c].op = "getSession" /\ ret[c].via = "numeric"
        /\ ret[c].arg \in IdsOf(sessionList)
        /\ ret[c].res.id = ret[c].arg

---------------------------------------------------------------------------
(* C8  Optimistic delete: when removeSession(s) with a non-empty id        *)
(* settles, after deleteChat resolved or rejected, s.id is in neither the  *)
(* in-memory list nor the persisted list.                                  *)

C8_OptimisticDelete ==
    [][ \A c \in Callers :
            (calls[c].st = "pending" /\ calls[c].op = "removeSession" /\ calls'[c].st = "idle") =>
                /\ calls[c].arg \in IdsOf(sessionList)
                     => Len(sessionList') < Len(sessionList)
                /\ calls[c].arg \notin IdsOf(sessionList')
                /\ calls[c].arg \notin IdsOf(PersistedList') ]_vars

\* A removeSession whose deleteChat was rejected has settled, and the list
\* holds other sessions and not the removed one.
C8_Witness ==
    \E c \in Callers :
        /\ ret[c].op = "removeSession" /\ ret[c].via = "rejected"
        /\ ret[c].arg \notin IdsOf(sessionList)
        /\ ret[c].arg \notin IdsOf(PersistedList)
        /\ Len(sessionList) > 0

---------------------------------------------------------------------------
(* C9  Write-through.  As claimed: right after every createSession,        *)
(* updateSession and removeSession that returns, from any reachable state, *)
(* the persisted list equals the in-memory list.                           *)

Mutators == {"createSession", "updateSession", "removeSession"}

---------------------------------------------------------------------------
(* C10  The TTL clock.  As claimed: every updateSession, createSession and *)
(* removeSession that returns leaves lastFetchTime equal to the time of    *)
(* the mutation.                                                           *)

C10_EveryMutationResetsClock ==
    [][ \A c \in Callers :
            (ret'[c].op \in Mutators /\ ret'[c].st = "fulfilled") =>
                lastFetchTime' = now ]_vars

(* C10 as amended: every createSession and every removeSession of a        *)
(* session with a non-empty id leaves lastFetchTime equal to the time at   *)
(* which it settles, so that a getSessionList within the next 5000 ms on a *)
(* non-empty list makes no request; updateSession, and removeSession of a  *)
(* session without an id, leave lastFetchTime as it was.                   *)

C10_MutationsAndClock ==
    [][ /\ \A c \in Callers :
              (ret'[c].op \in Mutators /\ ret'[c].st = "fulfilled") =>
                  IF \/ ret'[c].op = "createSession"
                     \/ ret'[c].op = "removeSession" /\ ret'[c].arg # ""
                  THEN lastFetchTime' = now
                  ELSE lastFetchTime' = lastFetchTime
        /\ \A c \in Callers :
              (IssuesList(c) /\ Len(sessionList) > 0 /\ now - lastFetchTime < 5000) =>
                  net' = net ]_vars

\* A createSession made after the TTL of the last fetch had run out has set
\* the clock to the time of the call.
C10_Witness ==
    \E c \in Callers :
        /\ ret[c].op = "createSession"
        /\ lastFetchTime = now
        /\ now > StartTime

---------------------------------------------------------------------------
(* C16  Sentinel ids: getSession called with "", "undefined" or "null"     *)
(* returns a freshly synthesized temporary session, makes no request, and  *)
(* adds nothing to the per-id cache, the pending-request map or the        *)
(* in-memory list.                                                         *)

C16_SentinelIds ==
    [][ \A c \in Callers, id \in SentinelIds :
            IssuesGet(c, id) =>
                /\ net' = net
                /\ sessionCache' = sessionCache
                /\ sessionFetchPromises' = sessionFetchPromises
                /\ sessionList' = sessionList
                /\ calls' = calls
                /\ ret'[c].st = "fulfilled"
                /\ ret'[c].res =
                      [id |-> "temp-" \o ToString(now), name |-> "New Chat",
                       sessionId |-> "temp-" \o ToString(now), userId |-> "default",
                       channel |-> "console", messages |-> <<>>, meta |-> <<>>]
                /\ ret'[c].res.id \notin IdsOf(sessionList) ]_vars

\* getSession("undefined") has returned a temporary session while the list
\* holds sessions and the cache is as it was.
C16_Witness ==
    \E c \in Callers :
        /\ ret[c].op = "getSession" /\ ret[c].via = "sentinel"
        /\ ret[c].arg = "undefined"
        /\ ret[c].res.id = "temp-" \o ToString(now)
        /\ Len(sessionList) > 0
        /\ "undefined" \notin DOMAIN sessionCache

---------------------------------------------------------------------------
(* C17  removeSession always succeeds locally: every removeSession call    *)
(* settles fulfilled, never rejected, when its deleteChat resolves and     *)
(* when it rejects, and its value is the in-memory list after the removal. *)

C17_RemoveNeverRejects ==
    [][ \A c \in Callers :
            /\ (calls[c].st = "pending" /\ calls[c].op = "removeSession"
                    /\ net[c].kind = "deleteChat" /\ net'[c].kind = "none") =>
                    ret'[c].op = "removeSession"
            /\ ret'[c].op = "removeSession" =>
                    /\ ret'[c].st = "fulfilled"
                    /\ ret'[c].res = sessionList'
                    /\ ret'[c].arg # "" => ret'[c].arg \notin IdsOf(ret'[c].res) ]_vars

\* A removeSession of a listed session has been fulfilled with the list
\* without it, although deleteChat was rejected.
C17_Witness ==
    \E c \in Callers :
        /\ ret[c].op = "removeSession" /\ ret[c].st = "fulfilled"
        /\ ret[c].via = "rejected"
        /\ ret[c].res = sessionList
        /\ ret[c].arg \in IdsOf(PersistedList) \/ IsNumericId(ret[c].arg)

---------------------------------------------------------------------------
(* C18  No lost data under interleaving: a session that createSession      *)
(* inserted while a list fetch was in flight is still in the in-memory     *)
(* list and in the persisted list after that fetch has settled             *)
(* successfully.                                                           *)

\* The time at which createSession assigned that id.
CreatedAt(id) == CHOOSE t \in Times : ToString(t) = id

\* The sessions createSession inserted since the listChats request of call c
\* was sent.
InsertedSince(c) ==
    {sessionList[i].id : i \in {j \in 1..Len(sessionList) :
        /\ sessionList[j].id \in NumericIds
        /\ CreatedAt(sessionList[j].id) >= net[c].at}}

C18_NoLostInsert ==
    [][ \A c \in Callers :
            (net[c].kind = "listChats" /\ ret'[c].op = "getSessionList"
                /\ ret'[c].via = "fetched") =>
                /\ InsertedSince(c) \subseteq IdsOf(sessionList')
                /\ InsertedSince(c) \subseteq IdsOf(PersistedList') ]_vars

---------------------------------------------------------------------------
(* C11  Cumulative callback.  As claimed: every invocation of onTextChunk  *)
(* carries the cumulative text assembled so far; for the deltas "Hel" and  *)
(* "lo" followed by [DONE] the callback is invoked exactly twice, with     *)
(* "Hel" and then "Hello".                                                 *)

\* sendAgentMessage has read the whole body and resolved.
StreamComplete ==
    reader.st = "resolved" /\ reader.handler /\ readPos = Len(body) /\ Len(body) > 0

DeltasOf(text) ==
    IF text = HelloStream THEN <<"Hel", "lo">>
    ELSE IF text = MixedStream THEN <<"a", "bc", "d">>
    ELSE IF text = ShapesStream THEN <<"e", "f">>
    ELSE <<>>

\* The number of line ends among the tokens read so far.
LinesRead == Cardinality({i \in 1..readPos : body[i].t = "nl"})

---------------------------------------------------------------------------
(* Vocabulary of the properties of the send operation *)

\* The i-th send has entered Sending and its request has settled.
SendSettled(i) == sends[i].outcome \in {"resolved", "rejected"}

\* The send request of the i-th send settles in this step.
Settles(i) == sends[i].pc = "sending" /\ sends'[i].pc # "sending"

\* The handler of the i-th send gets its first non-empty delta in this step.
FirstDelta(i) == sends[i].received = 0 /\ sends'[i].received = 1

\* The response to a getChatHistory request of a polling timer arrives in
\* this step.
PollArrives == \E poll \in polls : polls' = polls \ {poll}

\* No other send was started: the polling requests in flight are those of the
\* timer of the i-th send.
OnlySend(i) == \A j \in SendIds \ {i} : sends[j].pc = "idle"

\* The messages of the visible history with that id.
WithId(id) == {k \in 1..Len(history) : history[k].id = id}

RECURSIVE Concatenation(_)
Concatenation(texts) ==
    IF Len(texts) = 0 THEN "" ELSE Head(texts) \o Concatenation(Tail(texts))

---------------------------------------------------------------------------
(* C12  Timer cancellation.  As claimed: in one send operation the polling *)
(* timer is cleared exactly once, at the first non-empty delta if one      *)
(* arrives and otherwise at settlement, and never a second time.           *)

C12_ClearedExactlyOnce ==
    \A i \in SendIds :
        /\ sends[i].clears <= 1
        /\ SendSettled(i) => sends[i].clears = 1

(* C12 as amended: the polling timer started on Sending entry is stopped   *)
(* exactly once and never runs again: by the clearInterval of the first    *)
(* non-empty delta if one arrives, otherwise by the clearInterval at       *)
(* settlement.  clearInterval is called at settlement in every case: after *)
(* a delta that is a second call, on the handle already cleared.           *)

C12_TimerStoppedOnce ==
    [][ \A i \in SendIds :
            /\ (sends[i].pollTimer /\ ~sends'[i].pollTimer) =>
                    \/ FirstDelta(i)
                    \/ Settles(i) /\ sends[i].received = 0
            /\ FirstDelta(i) => ~sends'[i].pollTimer /\ sends'[i].clears = 1
            /\ Settles(i) =>
                    /\ ~sends'[i].pollTimer
                    /\ sends'[i].clears = IF sends[i].received > 0 THEN 2 ELSE 1
            /\ (~FirstDelta(i) /\ ~Settles(i)) => sends'[i].clears = sends[i].clears
            /\ (~sends[i].pollTimer /\ sends[i].pc \notin {"idle", "creating"}) =>
                    ~sends'[i].pollTimer ]_vars

\* A send that received deltas has settled: the timer is stopped and
\* clearInterval has been called twice.
C12_Witness ==
    \E i \in SendIds :
        /\ SendSettled(i)
        /\ sends[i].received > 0
        /\ sends[i].clears = 2
        /\ ~sends[i].pollTimer

---------------------------------------------------------------------------
(* C13  Reconciliation always runs: when the send request settles,         *)
(* resolved or rejected, with or without a delta, one chat-list refresh is *)
(* issued, and when that refresh is over, resolved or rejected, one        *)
(* history refetch; a send issues no other refresh or refetch.             *)

---------------------------------------------------------------------------
(* C14  A failed send is surfaced: when the send request was rejected, the *)
(* error state holds that failure when the send operation returns to Idle. *)

C14_FailedSendSurfaced ==
    [][ \A i \in SendIds :
            (sends[i].pc # "done" /\ sends'[i].pc = "done"
                /\ sends'[i].outcome = "rejected") =>
                error' = SendFailed ]_vars

---------------------------------------------------------------------------
(* C15  Eventual consistency of the visible history: the final history     *)
(* refetch of a send, when it succeeds, leaves the visible history equal   *)
(* to the server history it returned, and after it no write of that send,  *)
(* a late polling response or a late delta, changes the visible history.   *)

C15_NoLateWrite ==
    [][ \A i \in SendIds :
            /\ (sends[i].pc = "loadHistory" /\ sends'[i].final = "ok") =>
                    \E version \in sends[i].since..serverVersion :
                        history' = ServerHistory(version)
            /\ (sends[i].pc = "done" /\ sends[i].final = "ok" /\ OnlySend(i)) =>
                    /\ sends'[i].received = sends[i].received
                    /\ PollArrives => history' = history ]_vars

---------------------------------------------------------------------------
(* C19  Streaming is authoritative: from the first non-empty delta of a    *)
(* send until its request settles, no polling fetch is started, and no     *)
(* polling response, one of a fetch already in flight included, overwrites *)
(* the visible history.                                                    *)

C19_StreamingAuthoritative ==
    [][ \A i \in SendIds :
            (sends[i].pc = "sending" /\ sends[i].hasStreamChunk) =>
                /\ polls' \subseteq polls
                /\ PollArrives => history' = history ]_vars

---------------------------------------------------------------------------
(* C20  Replace-by-id: under every interleaving of deltas and polling      *)
(* overwrites, the visible history holds at most one message with the      *)
(* stream-assistant id of a send, and the text of that message is the      *)
(* concatenation, in order, of the deltas the send has received so far.    *)

C20_ReplaceById ==
    \A i \in SendIds :
        /\ Cardinality(WithId(StreamAssistantId(i))) <= 1
        /\ \A k \in WithId(StreamAssistantId(i)) :
              /\ history[k].role = "assistant"
              /\ history[k].text = Concatenation(SubSeq(Script, 1, sends[i].received))

\* A polling response overwrote the history between two deltas: the second
\* delta has put the assistant message back, with the whole text.
C20_Witness ==
    \E i \in SendIds :
        /\ sends[i].pc = "sending"
        /\ sends[i].received = 2
        /\ WithId(OptimisticId(i)) = {}
        /\ \E k \in WithId(StreamAssistantId(i)) : history[k].text = "Hello"

---------------------------------------------------------------------------
(* C21  Optimistic append.  As claimed: the step in which sendMessage is   *)
(* invoked appends the optimistic user message and starts the polling      *)
(* timer, before any network round-trip of the send is awaited, also when  *)
(* no chat is active.                                                      *)

C21_AppendedBeforeAnyAwait ==
    [][ \A i \in SendIds :
            (sends[i].pc = "idle" /\ sends'[i].pc # "idle") =>
                /\ \E k \in 1..Len(history') : history'[k].id = OptimisticId(i)
                /\ sends'[i].pollTimer ]_vars

(* C21 as amended: with an active chat the step in which sendMessage is    *)
(* invoked appends the optimistic user message and starts the polling      *)
(* timer, before any request is awaited.  With no active chat createChat   *)
(* is awaited first: nothing is appended and no timer runs while it is in  *)
(* flight; the message is appended and the timer started in the step in    *)
(* which it resolves, before the send request is awaited, and never when   *)
(* it rejects.                                                             *)

C21_AppendedOnEntry ==
    [][ \A i \in SendIds :
            /\ (sends[i].pc = "idle" /\ sends'[i].pc # "idle") =>
                    sends'[i].pc = IF activeChat THEN "sending" ELSE "creating"
            /\ (sends[i].pc # "sending" /\ sends'[i].pc = "sending") =>
                    /\ history' = Append(history,
                                      Message(OptimisticId(i), "user", sends'[i].text))
                    /\ sends'[i].pollTimer
                    /\ sends'[i].received = 0 /\ sends'[i].outcome = "none"
            /\ (sends'[i].pc = "creating"
                    \/ (sends[i].pc = "creating" /\ sends'[i].pc = "done")) =>
                    /\ \A k \in 1..Len(history') : history'[k].id # OptimisticId(i)
                    /\ ~sends'[i].pollTimer ]_vars

\* sendMessage was invoked with no active chat: createChat is in flight, the
\* history is as it was and no timer runs.
C21_Witness ==
    \E i \in SendIds :
        /\ sends[i].pc = "creating"
        /\ sends[i].text # ""
        /\ ~activeChat
        /\ WithId(OptimisticId(i)) = {}
        /\ ~sends[i].pollTimer

---------------------------------------------------------------------------
(* C22  A failed send keeps what the user saw: when a send whose request   *)
(* was rejected returns to Idle, the visible history still holds the       *)
(* user's message and, when deltas were received, the assistant text       *)
(* streamed so far.  Read in favour of the code: the server's copy of the  *)
(* user's message counts as the message, and an assistant message that     *)
(* holds the streamed text or more of the reply counts as the text.        *)

StreamedOrMore(i) ==
    {Concatenation(SubSeq(Script, 1, n)) : n \in sends[i].received..Len(Script)}

C22_FailedSendKeepsMessages ==
    [][ \A i \in SendIds :
            (sends[i].pc # "done" /\ sends'[i].pc = "done"
                /\ sends[i].outcome = "rejected") =>
                /\ \E k \in 1..Len(history') :
                      /\ history'[k].role = "user"
                      /\ history'[k].text = sends[i].text
                /\ sends[i].received > 0 =>
                      \E k \in 1..Len(history') :
                          /\ history'[k].role = "assistant"
                          /\ history'[k].text \in StreamedOrMore(i) ]_vars

---------------------------------------------------------------------------
(* C23  Delta extraction follows a fixed precedence on the parsed payload: *)
(* delta when it is a string, then delta.text, then delta.content, then    *)
(* text_delta, then token, then the concatenation of content over every    *)
(* choices[].delta.  The first rule that matches decides the result: the   *)
(* handler is invoked with it, once, unless it is empty; a line where no   *)
(* rule matches invokes nothing.                                           *)

IsString(value) == value.k = "str"
IsObject(value) == value.k = "obj"

\* The rules of the claim, in its order: whether a rule matches the payload.
RuleMatches(n, payload) ==
    CASE n = 1 -> IsString(payload.delta)
      [] n = 2 -> IsObject(payload.delta) /\ IsString(payload.delta.text)
      [] n = 3 -> IsObject(payload.delta) /\ IsString(payload.delta.content)
      [] n = 4 -> IsString(payload.text_delta)
      [] n = 5 -> IsString(payload.token)
      [] n = 6 -> payload.choices.k = "arr"

\* The content of one element of choices: that of its delta, when a string.
ContentOf(choice) ==
    IF IsObject(choice) /\ IsObject(choice.delta) /\ IsString(choice.delta.content)
    THEN choice.delta.content.s ELSE ""

\* What a rule yields on a payload it matches.
RuleValue(n, payload) ==
    CASE n = 1 -> payload.delta.s
      [] n = 2 -> payload.delta.text.s
      [] n = 3 -> payload.delta.content.s
      [] n = 4 -> payload.text_delta.s
      [] n = 5 -> payload.token.s
      [] n = 6 -> Concatenation([k \in 1..Len(payload.choices.items) |->
                                    ContentOf(payload.choices.items[k])])

FirstMatching(payload) ==
    {n \in 1..6 : /\ IsObject(payload)
                  /\ RuleMatches(n, payload)
                  /\ \A m \in 1..(n - 1) : ~RuleMatches(m, payload)}

\* The payload of the line parseStreamLine was called on.
ParsedPayload == body[Len(body)].v

C23_ExtractionPrecedence ==
    reader.st = "parsed" =>
        /\ FirstMatching(ParsedPayload) = {} => invocations = <<>>
        /\ \A n \in FirstMatching(ParsedPayload) :
              invocations = IF RuleValue(n, ParsedPayload) = "" THEN <<>>
                            ELSE <<RuleValue(n, ParsedPayload)>>

\* A payload with no usable delta, with text_delta, token and choices: the
\* handler was invoked with text_delta.
C23_Witness ==
    /\ reader.st = "parsed"
    /\ ParsedPayload.k = "obj"
    /\ ParsedPayload.delta = DeltaObject(Absent, Absent)
    /\ ParsedPayload.text_delta = Str("t")
    /\ ParsedPayload.token = Str("k")
    /\ ParsedPayload.choices.k = "arr"
    /\ invocations = <<"t">>

---------------------------------------------------------------------------
(* C24  Skipped and malformed lines: a line that is blank, begins with     *)
(* event:, has an empty payload, is the [DONE] sentinel or fails JSON      *)
(* parsing invokes nothing and does not make the send reject, and every    *)
(* well-formed delta line is delivered, those after such a line included:  *)
(* the invocations are the deltas of the well-formed lines processed so    *)
(* far, in order.                                                          *)

\* The payload of a line: what follows data:, or the line itself, trimmed.
PayloadOf(line) ==
    LET text == Trim(line)
    IN IF Len(text) > 0 /\ text[1] = DATA THEN Trim(Tail(text)) ELSE text

IsBlank(line) == \A k \in 1..Len(line) : IsSpace(line[k])
IsEventLine(line) == ~IsBlank(line) /\ Trim(line)[1] = EVENT
HasEmptyPayload(line) == PayloadOf(line) = <<>>
IsDoneLine(line) == PayloadOf(line) = <<DONE>>
FailsJSON(line) ==
    LET payload == PayloadOf(line)
    IN ~(Len(payload) = 1 /\ payload[1].t = "json")

Skipped(line) ==
    \/ IsBlank(line)
    \/ IsEventLine(line)
    \/ HasEmptyPayload(line)
    \/ IsDoneLine(line)
    \/ FailsJSON(line)

\* What a line delivers: nothing when skipped, else its delta unless empty.
Delivered(line) ==
    IF Skipped(line) THEN <<>>
    ELSE LET delta == extractDeltaText(PayloadOf(line)[1].v)
         IN IF delta = "" THEN <<>> ELSE <<delta>>

RECURSIVE DeliveredAll(_)
DeliveredAll(lines) ==
    IF Len(lines) = 0 THEN <<>>
    ELSE Delivered(Head(lines)) \o DeliveredAll(Tail(lines))

\* The lines processed before the stream ends: those ended by a line end
\* among the tokens read.  What follows the last line end is processed when
\* the stream ends, unless empty.
SegmentsRead == Split(SubSeq(body, 1, readPos))
ProcessedLines == SubSeq(SegmentsRead, 1, Len(SegmentsRead) - 1)
UnendedLine == SegmentsRead[Len(SegmentsRead)]

C24_SkippedLines ==
    [][ /\ reader.handler => invocations = DeliveredAll(ProcessedLines)
        /\ (reader.st = "reading" /\ reader'.st = "resolved" /\ reader.handler) =>
              invocations' = invocations \o Delivered(UnendedLine)
        /\ reader'.st = "rejected" =>
              /\ reader.st \in {"fetching", "reading"}
              /\ invocations' = invocations
              /\ readPos' = readPos ]_vars

\* An event: line, a blank line, a line that is no JSON, a [DONE] line and a
\* line with an empty payload were processed, and the delta lines around
\* them were delivered.
C24_Witness ==
    /\ body = MixedStream
    /\ reader.st = "reading"
    /\ reader.handler
    /\ {line \in {ProcessedLines[k] : k \in 1..Len(ProcessedLines)} : Skipped(line)}
          = {<<EVENT, SP, JUNK>>, <<>>, <<JUNK>>, <<DATA, DONE>>, <<DATA, SP>>}
    /\ invocations = <<"a", "bc">>

---------------------------------------------------------------------------
(* C25  Chunk-boundary independence: however the body is cut into chunks,  *)
(* inside a line or between \r and \n, the invocations are those of the    *)
(* body delivered in one chunk: at every point they are the invocations of *)
(* the lines complete so far, each parsed once, the buffer is what follows *)
(* the last line end, and at the end they are those of the whole body.     *)

\* The invocations of a text that arrives in one chunk and then ends.
OneChunk(text) ==
    LET lines == Split(text)
        rest == lines[Len(lines)]
    IN ParseLines(SubSeq(lines, 1, Len(lines) - 1), TRUE)
           \o (IF Len(rest) > 0 THEN parseStreamLine(rest, TRUE) ELSE <<>>)

C25_ChunkIndependence ==
    (reader.handler /\ reader.st \in {"reading", "resolved", "rejected"}) =>
        /\ buffer = UnendedLine
        /\ ~StreamComplete => invocations = ParseLines(ProcessedLines, TRUE)
        /\ StreamComplete => invocations = OneChunk(body)

\* A chunk ended between the \r and the \n of the line that carries "a":
\* the line is held in the buffer and nothing was delivered yet.
C25_Witness ==
    /\ body = MixedStream
    /\ reader.st = "reading"
    /\ reader.handler
    /\ buffer = <<DATA, JsonTok(Payload(Absent, Absent, Str("a"), Absent)), CR>>
    /\ invocations = <<>>

---------------------------------------------------------------------------
(* C26  Stream end: in the step in which sendAgentMessage resolves after   *)
(* the stream has ended, a non-empty buffer is processed as one line,      *)
(* once, and an empty buffer is not processed at all.                      *)

C26_BufferOnStreamEnd ==
    [][ (reader.st = "reading" /\ reader'.st = "resolved") =>
            /\ readPos = Len(body)
            /\ Len(buffer) = 0 => invocations' = invocations
            /\ Len(buffer) > 0 =>
                  invocations' = invocations \o
                      (IF reader.handler THEN Delivered(buffer) ELSE <<>>)
            /\ Len(invocations') <= Len(invocations) + 1 ]_vars

\* The body ended without a line end after the line that carries "d": the
\* line was in the buffer when the stream ended, and "d" was delivered.
C26_Witness ==
    /\ body = MixedStream
    /\ reader.st = "resolved"
    /\ reader.handler
    /\ readPos = Len(body)
    /\ Len(buffer) > 0
    /\ Delivered(buffer) = <<"d">>
    /\ invocations = <<"a", "bc", "d">>

---------------------------------------------------------------------------
(* C27  A successful list fetch: in the step in which listChats resolves,  *)
(* the in-memory list becomes the payload in reversed order without the    *)
(* entries whose id is empty, "undefined" or "null", the persisted list    *)
(* becomes that same list, the TTL clock becomes the time of the step, and *)
(* the callers get that list.                                              *)

\* The entries of a payload that have a usable id, last one first.
UsableReversed(payload) ==
    LET usable == SelectSeq(payload, LAMBDA s : s.id \notin {"", "undefined", "null"})
    IN [k \in 1..Len(usable) |-> usable[Len(usable) + 1 - k]]

C27_SuccessfulListFetch ==
    [][ \A c \in Callers :
            (net[c].kind = "listChats" /\ ret'[c].via = "fetched") =>
                /\ sessionList' = UsableReversed(ret'[c].response)
                /\ lsValue'.present
                /\ JSONparse(lsValue') = UsableReversed(ret'[c].response)
                /\ lastFetchTime' = now'
                /\ ret'[c].res = UsableReversed(ret'[c].response) ]_vars

\* listChats has just resolved with two chats, one of them without a usable
\* id, at a time after the start: the list holds the other one.
C27_Witness ==
    \E c \in Callers :
        /\ ret[c].op = "getSessionList"
        /\ ret[c].via = "fetched"
        /\ ret[c].response = <<ServerSummary("undefined"), ServerSummary("b")>>
        /\ sessionList = <<ServerSummary("b")>>
        /\ JSONparse(lsValue) = sessionList
        /\ now > StartTime
        /\ lastFetchTime = now

---------------------------------------------------------------------------
(* C28  Detail merge.  As claimed: a successful getSession(id) fetch       *)
(* returns and caches a session whose name, sessionId, userId, channel and *)
(* meta are those of the list entry with that id when there is one, the    *)
(* defaults otherwise, and whose messages are those of the response, none  *)
(* when the response has none.                                             *)

\* getChat of call c resolves in this step.
DetailFetched(c) == net[c].kind = "getChat" /\ ret'[c].via = "fetched"

DefaultDetail(id) ==
    [id |-> id, name |-> id, sessionId |-> id, userId |-> "default",
     channel |-> "console", messages |-> <<>>, meta |-> <<>>]

MessagesOf(response) == IF response.has THEN response.messages ELSE <<>>

C28_MergeFromEntry ==
    [][ \A c \in Callers :
            DetailFetched(c) =>
                LET id == net[c].id
                    entry == IF HasSession(sessionList, id)
                             THEN FindSession(sessionList, id) ELSE DefaultDetail(id)
                IN /\ ret'[c].res = [entry EXCEPT !.id = id,
                                        !.messages = MessagesOf(ret'[c].response)]
                   /\ sessionCache'[id].session = ret'[c].res ]_vars

(* C28 as amended: each of name, sessionId, userId and channel is that of  *)
(* the list entry with that id when there is one and its field is not      *)
(* empty, and the default otherwise (the id for name and sessionId,        *)
(* "default" for userId, "console" for channel); meta is that of the       *)
(* entry, empty without one; the messages are those of the response, none  *)
(* when it has none; the session is cached with the time of the step and   *)
(* returned to every call waiting for the fetch.                           *)

Preferred(value, default) == IF value # "" THEN value ELSE default

C28_DetailMerge ==
    [][ \A c \in Callers :
            DetailFetched(c) =>
                LET id == net[c].id
                    default == DefaultDetail(id)
                    entry == IF HasSession(sessionList, id)
                             THEN FindSession(sessionList, id) ELSE default
                    merged == [id |-> id,
                               name |-> Preferred(entry.name, default.name),
                               sessionId |-> Preferred(entry.sessionId, default.sessionId),
                               userId |-> Preferred(entry.userId, default.userId),
                               channel |-> Preferred(entry.channel, default.channel),
                               messages |-> MessagesOf(ret'[c].response),
                               meta |-> entry.meta]
                IN /\ ret'[c].res = merged
                   /\ sessionCache'[id] = [session |-> merged, timestamp |-> now']
                   /\ \A d \in Callers :
                         (calls[d].st = "pending" /\ calls[d].op = "getSession"
                             /\ calls[d].awaits = c) => ret'[d].res = merged ]_vars

\* getSession("b") has just been fetched while the list holds chat b, whose
\* channel is empty: the name is the entry's, the channel the default, the
\* messages the response's.
C28_Witness ==
    \E c \in Callers :
        /\ ret[c].op = "getSession" /\ ret[c].arg = "b" /\ ret[c].via = "fetched"
        /\ HasSession(sessionList, "b")
        /\ FindSession(sessionList, "b").channel = ""
        /\ ret[c].response.has
        /\ ret[c].res.name = "srv-b"
        /\ ret[c].res.channel = "console"
        /\ ret[c].res.messages = <<"m1">>
        /\ sessionCache["b"].session = ret[c].res

---------------------------------------------------------------------------
(* C29  Per-id detail TTL: a getSession(id) made less than 5000 ms after   *)
(* the last successful fetch of id (the one the cache entry of id records) *)
(* returns the session that fetch cached and makes no request; one made    *)
(* 5000 ms or more after it, with no getChat for id outstanding, starts    *)
(* exactly one getChat request for id.                                     *)

C29_DetailTTL ==
    [][ \A c \in Callers, id \in DOMAIN sessionCache :
            IssuesGet(c, id) =>
                LET age == now - sessionCache[id].timestamp IN
                /\ age < 5000 =>
                      /\ net' = net
                      /\ ret'[c].st = "fulfilled"
                      /\ ret'[c].res = sessionCache[id].session
                      /\ sessionCache' = sessionCache
                      /\ sessionFetchPromises' = sessionFetchPromises
                /\ (age >= 5000 /\ ChatRequests(id) = {}) =>
                      /\ net'[c] = [kind |-> "getChat", id |-> id, at |-> 0]
                      /\ \A d \in Callers \ {c} : net'[d] = net[d]
                      /\ calls'[c].st = "pending" ]_vars

\* One call has just been served the session cached for a 2500 ms earlier,
\* while a request for b is outstanding that was started exactly 5000 ms
\* after the last fetch of b.
C29_Witness ==
    \E c, d \in Callers :
        /\ ret[c].op = "getSession" /\ ret[c].arg = "a" /\ ret[c].via = "cached"
        /\ now - sessionCache["a"].timestamp = 2500
        /\ ret[c].res = sessionCache["a"].session
        /\ net[d] = [kind |-> "getChat", id |-> "b", at |-> 0]
        /\ "b" \in DOMAIN sessionCache
        /\ now - sessionCache["b"].timestamp = 5000

---------------------------------------------------------------------------
(* C30  Pending requests torn down: in every state where no listChats      *)
(* request is outstanding the pending list request is null, and where no   *)
(* getChat request for id is outstanding the pending-request map has no    *)
(* entry for id; the step in which a request resolves or rejects leaves    *)
(* it so, and a call made then starts a new request.                       *)

C30_PendingTornDown ==
    /\ ListRequests = {} => fetchPromise = NoPromise
    /\ \A id \in ReadIds : ChatRequests(id) = {} => id \notin DOMAIN sessionFetchPromises

\* A list fetch has just failed and left no pending list request, after a
\* getChat request for a had succeeded and left no entry for a.
C30_Witness ==
    \E c \in Callers :
        /\ ret[c].op = "getSessionList" /\ ret[c].via = "fallback"
        /\ ListRequests = {}
        /\ fetchPromise = NoPromise
        /\ "a" \in DOMAIN sessionCache
        /\ ChatRequests("a") = {}
        /\ "a" \notin DOMAIN sessionFetchPromises

---------------------------------------------------------------------------
(* C31  Ids assigned by createSession are unique: no two entries of the    *)
(* in-memory list carry the same id, whatever createSession calls (two at  *)
(* the same millisecond included) and other methods came before.           *)

C31_UniqueIds ==
    \A i, j \in 1..Len(sessionList) : i # j => sessionList[i].id # sessionList[j].id

---------------------------------------------------------------------------
(* C32  Store and memory stay in step: the step in which a getSessionList  *)
(* settles, and every step that writes the Persistent Store (a list fetch  *)
(* resolving, updateSession on a listed id, createSession, removeSession   *)
(* settling), ends with the persisted list equal to the in-memory list,    *)
(* and once they are equal every later step leaves them equal, whatever    *)
(* calls are waiting.                                                      *)

InStep == sessionList = PersistedList

\* A getSessionList settles in this step, or the step writes the store.
SettlesOrWrites ==
    \E c \in Callers :
        \/ ret'[c].op = "getSessionList"
        \/ ret'[c].op = "createSession"
        \/ ret'[c].op = "updateSession" /\ ret'[c].via = "found"
        \/ ret'[c].op = "removeSession" /\ ret'[c].via # "noid"

C32_StoreInStep ==
    [][ /\ SettlesOrWrites => InStep'
        /\ InStep => InStep' ]_vars

\* A removeSession has just settled after its deleteChat failed, on the list
\* that a failed list fetch had taken from the store: one of the two stored
\* sessions is left, in memory and in the store.
C32_Witness ==
    \E c \in Callers :
        /\ ret[c].op = "removeSession" /\ ret[c].via = "rejected"
        /\ lastFetchTime > 0
        /\ Len(sessionList) = 1
        /\ sessionList[1] \in {ServerSummary("a"), ServerSummary("b")}
        /\ lsValue.present
        /\ lsValue.text = sessionList

---------------------------------------------------------------------------
(* C33  No resurrection after delete: once removeSession(s) has returned,  *)
(* a list fetch that was in flight at that moment does not put s back into *)
(* the in-memory or the persisted list when it settles.  Stated for the    *)
(* fetch that settles in the step after the one removeSession returned in. *)

\* removeSession(s) returned in the step that led to this state.
JustRemoved ==
    {ret[d].arg : d \in {e \in Callers : ret[e].op = "removeSession" /\ ret[e].via # "noid"}}

C33_NoResurrection ==
    [][ \A c \in Callers :
            (net[c].kind = "listChats" /\ ret'[c].op = "getSessionList") =>
                \A s \in JustRemoved :
                    /\ s \notin IdsOf(sessionList')
                    /\ s \notin IdsOf(PersistedList') ]_vars

---------------------------------------------------------------------------
(* C34  A failed list fetch does not refresh the TTL clock: the step in    *)
(* which a listChats request fails leaves lastFetchTime as it was, and a   *)
(* getSessionList made straight after it, 5000 ms or more after the clock  *)
(* was last set, starts a new request however many sessions the fallback   *)
(* put into the list.                                                      *)

\* A list fetch failed in the step that led to this state.
JustFellBack == \E d \in Callers : ret[d].op = "getSessionList" /\ ret[d].via = "fallback"

C34_FailedFetchKeepsClock ==
    [][ /\ \A c \in Callers :
              (net[c].kind = "listChats" /\ ret'[c].via = "fallback") =>
                  lastFetchTime' = lastFetchTime
        /\ \A c \in Callers :
              (IssuesList(c) /\ JustFellBack /\ now - lastFetchTime >= 5000) =>
                  /\ net'[c].kind = "listChats"
                  /\ calls'[c].st = "pending" ]_vars

\* A failed fetch has just taken a non-empty list from the store, 5000 ms or
\* more after the clock was last set: the clock still shows that earlier time.
C34_Witness ==
    /\ JustFellBack
    /\ Len(sessionList) > 0
    /\ lastFetchTime > 0
    /\ now - lastFetchTime >= 5000

---------------------------------------------------------------------------
(* C35  A failed detail fetch is never cached: the step in which the       *)
(* getChat request for id fails leaves the per-id cache as it was, with no *)
(* entry created or refreshed for id, and a getSession(id) made straight   *)
(* after it starts a new getChat request for id.                           *)

\* The ids whose getChat request failed in the step that led to this state.
JustFailed ==
    {ret[d].arg : d \in {e \in Callers : ret[e].op = "getSession" /\ ret[e].via = "fallback"}}

C35_FailureNotCached ==
    [][ /\ \A c \in Callers :
              (net[c].kind = "getChat" /\ ret'[c].via = "fallback") =>
                  /\ sessionCache' = sessionCache
                  /\ ~SessionCacheValid(net[c].id)'
        /\ \A c \in Callers, id \in JustFailed :
              IssuesGet(c, id) =>
                  /\ net'[c] = [kind |-> "getChat", id |-> id, at |-> 0]
                  /\ calls'[c].st = "pending" ]_vars

\* The request for a has just failed, 5000 ms or more after an earlier one
\* had succeeded: the cache still holds the earlier entry, with its time.
C35_Witness ==
    /\ "a" \in JustFailed
    /\ "a" \in DOMAIN sessionCache
    /\ now - sessionCache["a"].timestamp >= 5000
    /\ "a" \notin DOMAIN sessionFetchPromises

---------------------------------------------------------------------------
(* C36  At most one send operation is active: while a send is anywhere     *)
(* between its entry to Sending and the end of its Reconciling step, a     *)
(* further sendMessage is turned away by the first test of sendMessage,    *)
(* whatever its text, and so has no effect; one with a blank text is       *)
(* turned away in every state.                                             *)

\* The send is in Sending, or in the loadChats or loadHistory of Reconciling.
Active(i) == sends[i].pc \in {"sending", "loadChats", "loadHistory"}

C36_OneActiveSend ==
    /\ Refused("")
    /\ \A i \in SendIds : Active(i) => \A text \in Texts : Refused(text)

---------------------------------------------------------------------------
(* C37  No timer leak: a send that has reached its Reconciling step or has *)
(* returned, after its request resolved or rejected, with deltas or        *)
(* without, or because no chat could be created, has no polling timer      *)
(* running, and every polling fetch that starts is started by the timer of *)
(* a send that is still in Sending.                                        *)

\* The send is in its Reconciling step or has returned.
PastSending(i) == sends[i].pc \in {"loadChats", "loadHistory", "done"}

C37_NoTimerLeak ==
    [][ /\ \A i \in SendIds : PastSending(i)' => ~sends'[i].pollTimer
        /\ polls' \ polls # {} =>
              \E i \in SendIds : sends[i].pc = "sending" /\ sends[i].pollTimer ]_vars

\* A send whose request failed before any delta is in its Reconciling step:
\* its timer, which had started a polling fetch that is still in flight, was
\* stopped by the one clearInterval of the finally.
C37_Witness ==
    \E i \in SendIds :
        /\ sends[i].pc = "loadChats"
        /\ sends[i].outcome = "rejected"
        /\ sends[i].received = 0
        /\ sends[i].clears = 1
        /\ ~sends[i].pollTimer
        /\ polls # {}

---------------------------------------------------------------------------
(* C38  removeSession of a session whose id is empty or missing makes no   *)
(* request and leaves the in-memory list, the persisted list and the TTL   *)
(* clock as they were; updateSession with a patch whose id matches no      *)
(* in-memory entry likewise changes nothing and inserts nothing.  Both     *)
(* return the list as it is.                                               *)

\* The call of c that returns in this step changes nothing.
ChangesNothing(c) ==
    /\ net' = net
    /\ sessionList' = sessionList
    /\ lsValue' = lsValue
    /\ lastFetchTime' = lastFetchTime
    /\ calls' = calls
    /\ ret'[c].st = "fulfilled"
    /\ ret'[c].res = sessionList

C38_NoOpMutations ==
    [][ \A c \in Callers :
            /\ (calls[c].st = "idle" /\ ret'[c].op = "removeSession" /\ ret'[c].arg = "") =>
                  ChangesNothing(c)
            /\ (calls[c].st = "idle" /\ ret'[c].op = "updateSession"
                    /\ ret'[c].arg \notin IdsOf(sessionList)) =>
                  /\ ChangesNothing(c)
                  /\ ret'[c].arg \notin IdsOf(sessionList') ]_vars

\* An updateSession for chat b has just returned a list that holds another
\* session and not b, with the store as it was.
C38_Witness ==
    \E c \in Callers :
        /\ ret[c].op = "updateSession" /\ ret[c].arg = "b"
        /\ Len(sessionList) > 0
        /\ "b" \notin IdsOf(sessionList)
        /\ ret[c].res = sessionList
        /\ PersistedList = sessionList

---------------------------------------------------------------------------
(* C39  The [DONE] sentinel is only skipped, not treated as end of stream: *)
(* the invocations are those of the lines before the first [DONE] line     *)
(* followed by those of the lines after it, so a well-formed delta line    *)
(* after it is delivered; and while tokens of the body remain to be read   *)
(* after a [DONE] line the read loop goes on (or has failed): it ends with *)
(* sendAgentMessage resolved only when the reader has reported done.       *)

\* The places of the [DONE] lines among the lines processed.
DoneAt == {k \in 1..Len(ProcessedLines) : IsDoneLine(ProcessedLines[k])}
FirstDone == CHOOSE k \in DoneAt : \A j \in DoneAt : k <= j

C39_DoneOnlySkipped ==
    (reader.handler /\ DoneAt # {}) =>
        /\ invocations =
              DeliveredAll(SubSeq(ProcessedLines, 1, FirstDone - 1))
                  \o DeliveredAll(SubSeq(ProcessedLines, FirstDone + 1, Len(ProcessedLines)))
                  \o (IF reader.st = "resolved" THEN Delivered(UnendedLine) ELSE <<>>)
        /\ readPos < Len(body) => reader.st \in {"reading", "rejected"}
        /\ reader.st = "resolved" => readPos = Len(body)

\* The line that carries "b" and "c" was processed after the [DONE] line,
\* and its delta was delivered; the loop is still reading.
C39_Witness ==
    /\ body = MixedStream
    /\ reader.st = "reading"
    /\ reader.handler
    /\ DoneAt # {}
    /\ Len(ProcessedLines) = FirstDone + 2
    /\ Delivered(ProcessedLines[FirstDone + 2]) = <<"bc">>
    /\ invocations = <<"a", "bc">>
    /\ readPos < Len(body)

====
